---- MODULE Spec2Model ----
(***************************************************************************)
(* A model of src/volatile_memory.rs: the volatile views (VolatileSlice,   *)
(* VolatileRef, VolatileArrayRef), the bounds/overflow-checked operations  *)
(* that derive them, the Bytes accessors of VolatileSlice and the copy     *)
(* engine (copy_slice).                                                    *)
(*                                                                         *)
(* Addresses are absolute machine addresses of a scaled-down address       *)
(* space of UsizeBits bits; a byte-range view is (addr, size, bitmap) as   *)
(* in the source.  The dirty bitmap is the external BitmapSlice, modelled  *)
(* at byte granularity as a base offset into the root's bitmap.            *)
(*                                                                         *)
(* A behaviour is a caller that owns one root region, repeatedly calls one *)
(* operation on its current view (pc = "returned" holds the call, its      *)
(* arguments and its result) and continues with the view it got.  A call   *)
(* that mutated the region ends the behaviour: its effect is compared      *)
(* with the state before the call (mem0, dirty0).                          *)
(***************************************************************************)
EXTENDS Integers, Sequences, FiniteSets, TLC

VARIABLES
    root,      \* the root VolatileSlice, made by VolatileSlice::with_bitmap
    mem,       \* region bytes: absolute address -> byte
    dirty,     \* offsets of the root bitmap that are marked dirty
    cur,       \* the caller's current view (slice, ref or array)
    pc,        \* "idle": between calls; "returned": a call has returned
    op,        \* name of the call that returned
    args,      \* its arguments
    res,       \* its result: Ok(v), Err(e) or Panic
    parent,    \* the view the call was made on
    mem0,      \* region bytes before the call
    dirty0,    \* dirty offsets before the call
    marks,     \* the mark_dirty calls made by the call, in order
    buf,       \* the caller's buffer after the call
    io,        \* the external reader or writer of an I/O staging call: the
               \* script left, the calls made of it, the bytes it delivered
               \* or took, and the staging vector
    cp,        \* the call of copy_slice under way, step by step: its heap,
               \* its pointers, the count left and the unit accesses made
    th         \* the threads that call operations on aliasing views at the
               \* same time: for each its call, the steps left and its buffer

vars == <<root, mem, dirty, cur, pc, op, args, res, parent, mem0, dirty0, marks, buf, io,
          cp, th>>

(***************************************************************************)
(* Bounds of the model and program constants.                              *)
(***************************************************************************)
\* width of usize in bits (scaled down from 64)
UsizeBits == 6

\* length in bytes of the root region
RegionLen == 10

\* size_of::<usize>(): one machine word, in bytes (64-bit target)
SizeOfUsize == 8

\* usize::MAX
UsizeMax == 2^UsizeBits - 1

\* isize::MAX
IsizeMax == 2^(UsizeBits - 1) - 1

\* wrapping usize arithmetic
Wrap(n) == n % (UsizeMax + 1)

Min(a, b) == IF a <= b THEN a ELSE b

(***************************************************************************)
(* Results and errors (enum Error).                                        *)
(***************************************************************************)
Ok(v) == [tag |-> "Ok", val |-> v]

Err(e) == [tag |-> "Err", val |-> e]

Panic == [tag |-> "Panic"]

IsOk(r) == r.tag = "Ok"

IsErr(r) == r.tag = "Err"

IsErrKind(r, k) == r.tag = "Err" /\ r.val.kind = k

OutOfBounds(addr) == [kind |-> "OutOfBounds", addr |-> addr]

Overflow(base, offset) == [kind |-> "Overflow", base |-> base, offset |-> offset]

TooBig(nelements, size) == [kind |-> "TooBig", nelements |-> nelements, size |-> size]

Misaligned(addr, alignment) == [kind |-> "Misaligned", addr |-> addr, alignment |-> alignment]

PartialBuffer(expected, completed) ==
    [kind |-> "PartialBuffer", expected |-> expected, completed |-> completed]

(***************************************************************************)
(* The dirty-tracking handle (crate::bitmap::BitmapSlice, external).  A    *)
(* handle is its base offset in the root's bitmap.                         *)
(***************************************************************************)
slice_at(bitmap, offset) == bitmap + offset

\* the call mark_dirty(offset, len) on handle `bitmap`, as <<first offset, len>>
mark_dirty(bitmap, offset, len) == <<bitmap + offset, len>>

\* the root-bitmap offsets a mark_dirty call covers
MarkRange(m) == {o \in m[1] .. (m[1] + m[2] - 1) : TRUE}

RECURSIVE MarkedBy(_)
MarkedBy(ms) == IF ms = <<>> THEN {} ELSE MarkRange(Head(ms)) \cup MarkedBy(Tail(ms))

(***************************************************************************)
(* Offset arithmetic.                                                      *)
(***************************************************************************)
\* mutant of compute_offset: a wrapping addition in place of checked_add
compute_offset_wrapping(base, offset) == Ok((base + offset) % (UsizeMax + 1))

compute_offset(base, offset) ==
    IF base + offset > UsizeMax
    THEN Err(Overflow(base, offset))
    ELSE Ok(base + offset)

\* pointer arithmetic ptr.add(count) on the machine
ptr_add(addr, count) == Wrap(addr + count)

(***************************************************************************)
(* Views.                                                                  *)
(***************************************************************************)
with_bitmap(addr, size, bitmap) ==
    [kind |-> "slice", addr |-> addr, size |-> size, bitmap |-> bitmap]

VolatileRef_with_bitmap(addr, T, bitmap) ==
    [kind |-> "ref", addr |-> addr, T |-> T, bitmap |-> bitmap]

VolatileArrayRef_with_bitmap(addr, nelem, T, bitmap) ==
    [kind |-> "array", addr |-> addr, nelem |-> nelem, T |-> T, bitmap |-> bitmap]

\* mutant of compute_end_offset: the comparison with self.len() is left out
compute_end_offset_unchecked(self, base, offset) == compute_offset(base, offset)

compute_end_offset(self, base, offset) ==
    LET mem_end == compute_offset(base, offset)
    IN  IF IsErr(mem_end) THEN mem_end
        ELSE IF mem_end.val > self.size THEN Err(OutOfBounds(mem_end.val))
        ELSE Ok(mem_end.val)

get_slice(self, offset, count) ==
    LET e == compute_end_offset(self, offset, count)
    IN  IF IsErr(e) THEN e
        ELSE Ok(with_bitmap(ptr_add(self.addr, offset), count,
                            slice_at(self.bitmap, offset)))

\* mutant of subslice: the parent's dirty handle is passed on as it is
subslice_keeps_bitmap(self, offset, count) ==
    LET e == compute_end_offset(self, offset, count)
    IN  IF IsErr(e) THEN e
        ELSE Ok(with_bitmap(ptr_add(self.addr, offset), count, self.bitmap))

subslice(self, offset, count) ==
    LET e == compute_end_offset(self, offset, count)
    IN  IF IsErr(e) THEN e
        ELSE Ok(with_bitmap(ptr_add(self.addr, offset), count,
                            slice_at(self.bitmap, offset)))

\* mutant of offset: the size is reduced but the address is not advanced
offset_keeps_addr(self, count) ==
    IF self.addr + count > UsizeMax
    THEN Err(Overflow(self.addr, count))
    ELSE IF count > self.size
    THEN Err(OutOfBounds(self.addr + count))
    ELSE Ok(with_bitmap(self.addr, self.size - count, slice_at(self.bitmap, count)))

offset(self, count) ==
    IF self.addr + count > UsizeMax
    THEN Err(Overflow(self.addr, count))
    ELSE IF count > self.size
    THEN Err(OutOfBounds(self.addr + count))
    ELSE Ok(with_bitmap(ptr_add(self.addr, count), self.size - count,
                        slice_at(self.bitmap, count)))

\* mutant of split_at: the first half keeps the length of the whole view
split_at_whole_start(self, mid) ==
    LET end == offset(self, mid)
    IN  IF IsErr(end) THEN end
        ELSE Ok(<<with_bitmap(self.addr, self.size, self.bitmap), end.val>>)

split_at(self, mid) ==
    LET end == offset(self, mid)
    IN  IF IsErr(end) THEN end
        ELSE Ok(<<with_bitmap(self.addr, mid, self.bitmap), end.val>>)

get_ref(self, T, off) ==
    LET slice == get_slice(self, off, T)
    IN  IF IsErr(slice) THEN slice
        ELSE Ok(VolatileRef_with_bitmap(slice.val.addr, T, slice.val.bitmap))

\* mutant of get_array_ref: the byte count is a wrapping multiplication
get_array_ref_wrapping(self, T, off, n) ==
    LET slice == get_slice(self, off, Wrap(n * T))
    IN  IF IsErr(slice) THEN slice
        ELSE Ok(VolatileArrayRef_with_bitmap(slice.val.addr, n, T, slice.val.bitmap))

get_array_ref(self, T, off, n) ==
    IF n > IsizeMax \/ n * T > IsizeMax
    THEN Err(TooBig(n, T))
    ELSE LET slice == get_slice(self, off, n * T)
         IN  IF IsErr(slice) THEN slice
             ELSE Ok(VolatileArrayRef_with_bitmap(slice.val.addr, n, T, slice.val.bitmap))

VolatileRef_to_slice(self) == with_bitmap(self.addr, self.T, self.bitmap)

VolatileArrayRef_to_slice(self) ==
    with_bitmap(self.addr, Wrap(self.nelem * self.T), self.bitmap)

\* mutant of ref_at: the element keeps the dirty handle of the whole array
ref_at_keeps_bitmap(self, index) ==
    IF ~(index < self.nelem) THEN Panic
    ELSE LET byteofs == self.T * index
         IN  Ok(VolatileRef_with_bitmap(ptr_add(self.addr, byteofs), self.T, self.bitmap))

ref_at(self, index) ==
    IF ~(index < self.nelem) THEN Panic
    ELSE LET byteofs == self.T * index
         IN  Ok(VolatileRef_with_bitmap(ptr_add(self.addr, byteofs), self.T,
                                        slice_at(self.bitmap, byteofs)))

VolatileArrayRef_from(slice) ==
    VolatileArrayRef_with_bitmap(slice.addr, slice.size, 1, slice.bitmap)

\* byte length of a view of any kind
ByteLen(v) ==
    CASE v.kind = "slice" -> v.size
      [] v.kind = "ref"   -> v.T
      [] v.kind = "array" -> v.nelem * v.T

(***************************************************************************)
(* The copy engine.  A heap is a function from the addresses of the region *)
(* and of the caller's buffer to bytes; src and dst are absolute.          *)
(***************************************************************************)
RECURSIVE BitAnd(_, _)
BitAnd(a, b) ==
    IF a = 0 \/ b = 0 THEN 0
    ELSE (IF a % 2 = 1 /\ b % 2 = 1 THEN 1 ELSE 0) + 2 * BitAnd(a \div 2, b \div 2)

\* !addr
BitNot(a) == UsizeMax - a

alignment(addr) == BitAnd(addr, Wrap(BitNot(addr) + 1))

\* one volatile load and one volatile store of `align` bytes
copy_single(h, align, src_addr, dst_addr) ==
    CASE align \in {1, 2, 4, 8} ->
        [a \in DOMAIN h |->
            IF a >= dst_addr /\ a < dst_addr + align
            THEN h[src_addr + (a - dst_addr)]
            ELSE h[a]]

\* the closure copy_aligned_slice of copy_slice_volatile, on the loop state
\* st = [h, src, dst, left]
RECURSIVE copy_aligned_loop(_, _)
copy_aligned_loop(st, min_align) ==
    IF st.left >= min_align
    THEN LET h1 == copy_single(st.h, min_align, st.src, st.dst)
             left1 == st.left - min_align
         IN  IF left1 = 0
             THEN [st EXCEPT !.h = h1, !.left = left1]
             ELSE copy_aligned_loop([h |-> h1, src |-> ptr_add(st.src, min_align),
                                     dst |-> ptr_add(st.dst, min_align), left |-> left1],
                                    min_align)
    ELSE st

copy_aligned_slice(st, align, min_align) ==
    IF align < min_align THEN st ELSE copy_aligned_loop(st, min_align)

\* mutant of copy_slice_volatile: the final pass of single bytes is left out
copy_slice_volatile_no_bytes(h, dst, src, total) ==
    LET align == Min(alignment(src), alignment(dst))
        s0 == [h |-> h, src |-> src, dst |-> dst, left |-> total]
        s8 == IF SizeOfUsize > 4 THEN copy_aligned_slice(s0, align, 8) ELSE s0
        s4 == copy_aligned_slice(s8, align, 4)
        s2 == copy_aligned_slice(s4, align, 2)
    IN  [heap |-> s2.h, ret |-> total]

copy_slice_volatile(h, dst, src, total) ==
    LET align == Min(alignment(src), alignment(dst))
        s0 == [h |-> h, src |-> src, dst |-> dst, left |-> total]
        s8 == IF SizeOfUsize > 4 THEN copy_aligned_slice(s0, align, 8) ELSE s0
        s4 == copy_aligned_slice(s8, align, 4)
        s2 == copy_aligned_slice(s4, align, 2)
        s1 == copy_aligned_slice(s2, align, 1)
    IN  [heap |-> s1.h, ret |-> total]

\* std::ptr::copy_nonoverlapping(src, dst, total)
copy_nonoverlapping(h, src, dst, total) ==
    [a \in DOMAIN h |->
        IF a >= dst /\ a < dst + total THEN h[src + (a - dst)] ELSE h[a]]

copy_slice(h, dst, src, total) ==
    IF total <= SizeOfUsize
    THEN [heap |-> copy_slice_volatile(h, dst, src, total).heap, ret |-> total]
    ELSE [heap |-> copy_nonoverlapping(h, src, dst, total), ret |-> total]

(***************************************************************************)
(* The copy engine step by step.  The state of copy_slice_volatile is      *)
(* st = [h, src, dst, left, align, min_align, units]: the heap, the two    *)
(* pointers, the count left, the common alignment, the unit size of the    *)
(* call of the closure copy_aligned_slice under way (0: all calls made)    *)
(* and the calls of copy_single made so far, as [align, src, dst].         *)
(***************************************************************************)
\* the unit size of the first call of the closure
first_align == IF SizeOfUsize > 4 THEN 8 ELSE 4

\* mutant of next_align: the call copy_aligned_slice(1) is left out
next_align_no_bytes(min_align) ==
    CASE min_align = 8 -> 4
      [] min_align = 4 -> 2
      [] min_align = 2 -> 0
      [] min_align = 1 -> 0

\* the unit size of the call of the closure that follows
next_align(min_align) ==
    CASE min_align = 8 -> 4
      [] min_align = 4 -> 2
      [] min_align = 2 -> 1
      [] min_align = 1 -> 0

\* mutant of copy_slice_volatile_enter: the alignment of the destination is
\* not looked at
copy_slice_volatile_enter_src_align(h, dst, src, total) ==
    [h |-> h, src |-> src, dst |-> dst, left |-> total,
     align |-> alignment(src), min_align |-> first_align, units |-> <<>>]

\* copy_slice_volatile up to the first call of the closure
copy_slice_volatile_enter(h, dst, src, total) ==
    [h |-> h, src |-> src, dst |-> dst, left |-> total,
     align |-> Min(alignment(src), alignment(dst)), min_align |-> first_align,
     units |-> <<>>]

\* the closure goes round its loop once more: it was not left at its
\* `return` and the condition of its while loop holds
copy_aligned_slice_turns(st) == ~(st.align < st.min_align) /\ st.left >= st.min_align

\* one step of the closure: one turn of its while loop, or the closure is
\* left (at its `return`, at the end of the loop or at its `break`) and the
\* next call of it is under way
copy_aligned_slice_step(st) ==
    IF ~copy_aligned_slice_turns(st)
    THEN [st EXCEPT !.min_align = next_align(st.min_align)]
    ELSE LET h1 == copy_single(st.h, st.min_align, st.src, st.dst)
             left1 == st.left - st.min_align
             unit == [align |-> st.min_align, src |-> st.src, dst |-> st.dst]
         IN  IF left1 = 0
             THEN [st EXCEPT !.h = h1, !.left = left1, !.units = Append(@, unit),
                             !.min_align = next_align(st.min_align)]
             ELSE [st EXCEPT !.h = h1, !.left = left1, !.units = Append(@, unit),
                             !.src = ptr_add(st.src, st.min_align),
                             !.dst = ptr_add(st.dst, st.min_align)]

(***************************************************************************)
(* impl Bytes<usize> for VolatileSlice.  A buffer is [ptr, len]: its bytes *)
(* are in the heap.  Each operation gives its result, the heap after it    *)
(* and the mark_dirty calls it made.                                       *)
(***************************************************************************)
Outcome(r, h, ms) == [res |-> r, heap |-> h, marks |-> ms]

\* mutant of write: the bounds test comes before the emptiness test
write_bounds_first(self, h, b, addr) ==
    IF addr >= self.size THEN Outcome(Err(OutOfBounds(addr)), h, <<>>)
    ELSE IF b.len = 0 THEN Outcome(Ok(0), h, <<>>)
    ELSE LET total == Min(b.len, self.size - addr)
             c == copy_slice(h, ptr_add(self.addr, addr), b.ptr, total)
         IN  Outcome(Ok(c.ret), c.heap, <<mark_dirty(self.bitmap, addr, c.ret)>>)

\* mutant of write: the requested length is marked dirty, not the count written
write_marks_requested(self, h, b, addr) ==
    IF b.len = 0 THEN Outcome(Ok(0), h, <<>>)
    ELSE IF addr >= self.size THEN Outcome(Err(OutOfBounds(addr)), h, <<>>)
    ELSE LET total == Min(b.len, self.size - addr)
             c == copy_slice(h, ptr_add(self.addr, addr), b.ptr, total)
         IN  Outcome(Ok(c.ret), c.heap, <<mark_dirty(self.bitmap, addr, b.len)>>)

write(self, h, b, addr) ==
    IF b.len = 0 THEN Outcome(Ok(0), h, <<>>)
    ELSE IF addr >= self.size THEN Outcome(Err(OutOfBounds(addr)), h, <<>>)
    ELSE LET total == Min(b.len, self.size - addr)
             c == copy_slice(h, ptr_add(self.addr, addr), b.ptr, total)
         IN  Outcome(Ok(c.ret), c.heap, <<mark_dirty(self.bitmap, addr, c.ret)>>)

\* mutant of read: the copy starts at the start of the view, not at addr
read_from_start(self, h, b, addr) ==
    IF b.len = 0 THEN Outcome(Ok(0), h, <<>>)
    ELSE IF addr >= self.size THEN Outcome(Err(OutOfBounds(addr)), h, <<>>)
    ELSE LET total == Min(b.len, self.size - addr)
             c == copy_slice(h, b.ptr, self.addr, total)
         IN  Outcome(Ok(c.ret), c.heap, <<>>)

\* mutant of read: the range read is marked dirty, as write does
read_marks_dirty(self, h, b, addr) ==
    IF b.len = 0 THEN Outcome(Ok(0), h, <<>>)
    ELSE IF addr >= self.size THEN Outcome(Err(OutOfBounds(addr)), h, <<>>)
    ELSE LET total == Min(b.len, self.size - addr)
             c == copy_slice(h, b.ptr, ptr_add(self.addr, addr), total)
         IN  Outcome(Ok(c.ret), c.heap, <<mark_dirty(self.bitmap, addr, c.ret)>>)

read(self, h, b, addr) ==
    IF b.len = 0 THEN Outcome(Ok(0), h, <<>>)
    ELSE IF addr >= self.size THEN Outcome(Err(OutOfBounds(addr)), h, <<>>)
    ELSE LET total == Min(b.len, self.size - addr)
             c == copy_slice(h, b.ptr, ptr_add(self.addr, addr), total)
         IN  Outcome(Ok(c.ret), c.heap, <<>>)

\* mutant of write_slice: a short write is not reported
write_slice_ignores_short(self, h, b, addr) ==
    LET w == write(self, h, b, addr)
    IN  IF IsErr(w.res) THEN w ELSE Outcome(Ok(0), w.heap, w.marks)

\* mutant of write_slice: the length is checked first and nothing is written
\* when the buffer does not fit
write_slice_checks_first(self, h, b, addr) ==
    IF b.len > 0 /\ addr < self.size /\ addr + b.len > self.size
    THEN Outcome(Err(PartialBuffer(b.len, self.size - addr)), h, <<>>)
    ELSE LET w == write(self, h, b, addr)
         IN  IF IsErr(w.res) THEN w ELSE Outcome(Ok(0), w.heap, w.marks)

write_slice(self, h, b, addr) ==
    LET w == write(self, h, b, addr)
    IN  IF IsErr(w.res) THEN w
        ELSE IF w.res.val # b.len
        THEN Outcome(Err(PartialBuffer(b.len, w.res.val)), w.heap, w.marks)
        ELSE Outcome(Ok(0), w.heap, w.marks)

read_slice(self, h, b, addr) ==
    LET r == read(self, h, b, addr)
    IN  IF IsErr(r.res) THEN r
        ELSE IF r.res.val # b.len
        THEN Outcome(Err(PartialBuffer(b.len, r.res.val)), r.heap, r.marks)
        ELSE Outcome(Ok(0), r.heap, r.marks)

(***************************************************************************)
(* Aligned and atomic access.  A value of an integer type T is given by    *)
(* its size_of::<T>() bytes in memory order (T::to_ne_bytes); T is named   *)
(* by its size.                                                            *)
(***************************************************************************)
\* align_of::<T>() of the atomic integer types and of u8 .. u64 (64-bit target)
align_of(T) == T

\* mutant of check_alignment: the address is masked with alignment, not
\* with alignment - 1
check_alignment_mask(self, align) ==
    IF BitAnd(self.addr, align) # 0
    THEN Err(Misaligned(self.addr, align))
    ELSE Ok(TRUE)

check_alignment(self, align) ==
    IF BitAnd(self.addr, align - 1) # 0
    THEN Err(Misaligned(self.addr, align))
    ELSE Ok(TRUE)

\* the reference &T the atomic and aligned accessors return
RefTo(addr, T) == [kind |-> "atomic", addr |-> addr, T |-> T]

aligned_as_ref(self, T, off) ==
    LET slice == get_slice(self, off, T)
    IN  IF IsErr(slice) THEN slice
        ELSE LET a == check_alignment(slice.val, align_of(T))
             IN  IF IsErr(a) THEN a ELSE Ok(RefTo(slice.val.addr, T))

\* mutant of get_atomic_ref: the alignment is checked before the bounds
get_atomic_ref_align_first(self, T, off) ==
    LET a == check_alignment(with_bitmap(ptr_add(self.addr, off), T, self.bitmap),
                             align_of(T))
    IN  IF IsErr(a) THEN a
        ELSE LET slice == get_slice(self, off, T)
             IN  IF IsErr(slice) THEN slice ELSE Ok(RefTo(slice.val.addr, T))

get_atomic_ref(self, T, off) ==
    LET slice == get_slice(self, off, T)
    IN  IF IsErr(slice) THEN slice
        ELSE LET a == check_alignment(slice.val, align_of(T))
             IN  IF IsErr(a) THEN a ELSE Ok(RefTo(slice.val.addr, T))

\* std's atomic store panics with Acquire and AcqRel, its load with Release
\* and AcqRel
StoreOrderings == {"Relaxed", "Release", "SeqCst"}

LoadOrderings == {"Relaxed", "Acquire", "SeqCst"}

\* r.store(val, order) on the atomic r: all bytes of r change in one step
atomic_store(h, r, val) ==
    [a \in DOMAIN h |->
        IF a >= r.addr /\ a < r.addr + r.T THEN val[a - r.addr + 1] ELSE h[a]]

\* r.load(order)
atomic_load(h, r) == [i \in 1 .. r.T |-> h[r.addr + i - 1]]

\* mutant of store: the value is stored but the dirty handle is not told
store_unmarked(self, h, T, val, addr, order) ==
    LET r == get_atomic_ref(self, T, addr)
    IN  IF IsErr(r) THEN Outcome(r, h, <<>>)
        ELSE IF order \notin StoreOrderings THEN Outcome(Panic, h, <<>>)
        ELSE Outcome(Ok(TRUE), atomic_store(h, r.val, val), <<>>)

\* mutant of store: one byte is marked dirty, whatever the size of T
store_marks_byte(self, h, T, val, addr, order) ==
    LET r == get_atomic_ref(self, T, addr)
    IN  IF IsErr(r) THEN Outcome(r, h, <<>>)
        ELSE IF order \notin StoreOrderings THEN Outcome(Panic, h, <<>>)
        ELSE Outcome(Ok(TRUE), atomic_store(h, r.val, val),
                     <<mark_dirty(self.bitmap, addr, 1)>>)

store(self, h, T, val, addr, order) ==
    LET r == get_atomic_ref(self, T, addr)
    IN  IF IsErr(r) THEN Outcome(r, h, <<>>)
        ELSE IF order \notin StoreOrderings THEN Outcome(Panic, h, <<>>)
        ELSE Outcome(Ok(TRUE), atomic_store(h, r.val, val),
                     <<mark_dirty(self.bitmap, addr, T)>>)

load(self, h, T, addr, order) ==
    LET r == get_atomic_ref(self, T, addr)
    IN  IF IsErr(r) THEN Outcome(r, h, <<>>)
        ELSE IF order \notin LoadOrderings THEN Outcome(Panic, h, <<>>)
        ELSE Outcome(Ok(atomic_load(h, r.val)), h, <<>>)

(***************************************************************************)
(* Typed element access: VolatileRef and VolatileArrayRef store / load,    *)
(* and the typed copies.  A typed buffer b is [ptr, len]: len elements of  *)
(* the type at address ptr.                                                *)
(***************************************************************************)
\* write_volatile(addr as *mut Packed<T>, Packed::<T>(v)): the T bytes of v,
\* at any alignment
write_volatile_packed(h, T, addr, v) ==
    [a \in DOMAIN h |-> IF a >= addr /\ a < addr + T THEN v[a - addr + 1] ELSE h[a]]

\* read_volatile(addr as *const Packed<T>).0
read_volatile_packed(h, T, addr) == [i \in 1 .. T |-> h[addr + i - 1]]

VolatileRef_store(self, h, v) ==
    Outcome(Ok(TRUE), write_volatile_packed(h, self.T, self.addr, v),
            <<mark_dirty(self.bitmap, 0, self.T)>>)

VolatileRef_load(self, h) ==
    Outcome(Ok(read_volatile_packed(h, self.T, self.addr)), h, <<>>)

VolatileArrayRef_load(self, h, index) ==
    LET r == ref_at(self, index)
    IN  IF r.tag = "Panic" THEN Outcome(Panic, h, <<>>) ELSE VolatileRef_load(r.val, h)

VolatileArrayRef_store(self, h, index, value) ==
    LET r == ref_at(self, index)
    IN  IF r.tag = "Panic" THEN Outcome(Panic, h, <<>>)
        ELSE VolatileRef_store(r.val, h, value)

\* the loop of VolatileArrayRef::copy_to for size_of::<T>() > 1, from its
\* turn i on: one volatile read per element of buf.iter_mut().take(self.len())
RECURSIVE copy_to_elements(_, _, _, _, _)
copy_to_elements(self, h, b, addr, i) ==
    IF i < Min(b.len, self.nelem)
    THEN copy_to_elements(self,
             write_volatile_packed(h, self.T, b.ptr + i * self.T,
                                   read_volatile_packed(h, self.T, addr)),
             b, ptr_add(addr, self.T), i + 1)
    ELSE [heap |-> h, addr |-> addr, i |-> i]

VolatileArrayRef_copy_to(self, h, b) ==
    IF self.T = 1
    THEN LET source == VolatileArrayRef_to_slice(self)
             total == Min(b.len, source.size)
             c == copy_slice(h, b.ptr, source.addr, total)
         IN  Outcome(Ok(c.ret), c.heap, <<>>)
    ELSE LET l == copy_to_elements(self, h, b, self.addr, 0)
         IN  Outcome(Ok(l.i), l.heap, <<>>)

\* the loop of VolatileArrayRef::copy_from for size_of::<T>() > 1: one
\* volatile write per element of buf.iter().take(self.len())
RECURSIVE copy_from_elements(_, _, _, _, _)
copy_from_elements(self, h, b, addr, i) ==
    IF i < Min(b.len, self.nelem)
    THEN copy_from_elements(self,
             write_volatile_packed(h, self.T, addr,
                                   read_volatile_packed(h, self.T, b.ptr + i * self.T)),
             b, ptr_add(addr, self.T), i + 1)
    ELSE [heap |-> h, addr |-> addr, i |-> i]

\* mutant of VolatileArrayRef_copy_from: the whole array is marked dirty
VolatileArrayRef_copy_from_marks_all(self, h, b) ==
    IF self.T = 1
    THEN LET destination == VolatileArrayRef_to_slice(self)
             total == Min(b.len, destination.size)
             c == copy_slice(h, destination.addr, b.ptr, total)
         IN  Outcome(Ok(TRUE), c.heap, <<mark_dirty(self.bitmap, 0, c.ret)>>)
    ELSE LET l == copy_from_elements(self, h, b, self.addr, 0)
         IN  Outcome(Ok(TRUE), l.heap, <<mark_dirty(self.bitmap, 0, self.nelem * self.T)>>)

VolatileArrayRef_copy_from(self, h, b) ==
    IF self.T = 1
    THEN LET destination == VolatileArrayRef_to_slice(self)
             total == Min(b.len, destination.size)
             c == copy_slice(h, destination.addr, b.ptr, total)
         IN  Outcome(Ok(TRUE), c.heap, <<mark_dirty(self.bitmap, 0, c.ret)>>)
    ELSE LET l == copy_from_elements(self, h, b, self.addr, 0)
         IN  Outcome(Ok(TRUE), l.heap,
                     <<mark_dirty(self.bitmap, 0, l.addr - self.addr)>>)

\* VolatileSlice::copy_to::<T>(buf)
copy_to(self, h, T, b) ==
    IF T = 1
    THEN LET total == Min(b.len, self.size)
             c == copy_slice(h, b.ptr, self.addr, total)
         IN  Outcome(Ok(c.ret), c.heap, <<>>)
    ELSE LET count == self.size \div T
             source == get_array_ref(self, T, 0, count)
         IN  IF IsErr(source) THEN Outcome(Panic, h, <<>>)
             ELSE VolatileArrayRef_copy_to(source.val, h, b)

\* mutant of copy_from: the length of buf is taken as its count of bytes
\* for every element type
copy_from_counts_elements(self, h, T, b) ==
    LET total == Min(b.len, self.size)
        c == copy_slice(h, self.addr, b.ptr, total)
    IN  Outcome(Ok(TRUE), c.heap, <<mark_dirty(self.bitmap, 0, c.ret * T)>>)

\* VolatileSlice::copy_from::<T>(buf)
copy_from(self, h, T, b) ==
    IF T = 1
    THEN LET total == Min(b.len, self.size)
             c == copy_slice(h, self.addr, b.ptr, total)
         IN  Outcome(Ok(TRUE), c.heap, <<mark_dirty(self.bitmap, 0, c.ret * T)>>)
    ELSE LET count == self.size \div T
             dest == get_array_ref(self, T, 0, count)
         IN  IF IsErr(dest) THEN Outcome(Panic, h, <<>>)
             ELSE VolatileArrayRef_copy_from(dest.val, h, b)

\* std::ptr::copy(src, dst, count): the bytes are read as they were before
\* the copy, so the ranges may overlap
copy(h, src, dst, count) ==
    [a \in DOMAIN h |->
        IF a >= dst /\ a < dst + count THEN h[src + (a - dst)] ELSE h[a]]

\* mutant of copy_to_volatile_slice: the source's handle is marked
copy_to_volatile_slice_marks_source(self, h, slice) ==
    LET count == Min(ByteLen(self), slice.size)
    IN  Outcome(Ok(TRUE), copy(h, self.addr, slice.addr, count),
                <<mark_dirty(self.bitmap, 0, count)>>)

\* copy_to_volatile_slice of VolatileSlice and of VolatileArrayRef: the
\* count is min(self.size, slice.size), resp. min(self.len() *
\* self.element_size(), slice.size)
copy_to_volatile_slice(self, h, slice) ==
    LET count == Min(IF self.kind = "slice" THEN self.size ELSE self.nelem * self.T,
                     slice.size)
    IN  Outcome(Ok(TRUE), copy(h, self.addr, slice.addr, count),
                <<mark_dirty(slice.bitmap, 0, count)>>)

(***************************************************************************)
(* The mutating operations as the steps they take, in program order, once  *)
(* their checks have passed (no step: the call returns at a check).  A     *)
(* step is one access of memory or one call of the dirty handle:           *)
(*   "unit":  len bytes are moved from src to dst by one volatile or       *)
(*            atomic access;                                               *)
(*   "bytes": std::ptr::copy / copy_nonoverlapping moves the bytes at the  *)
(*            offsets in todo, one at a time, in no given order;           *)
(*   "mark":  the call mark_dirty of <<dst, len>> on the root's bitmap.    *)
(* Addresses are absolute; the bytes a call writes from are in its         *)
(* caller's buffer b = [ptr, len].                                         *)
(***************************************************************************)
UnitStep(src, dst, len) ==
    [kind |-> "unit", src |-> src, dst |-> dst, len |-> len, todo |-> {}]

\* mutant of BytesSteps: the last byte is not moved
BytesSteps_short(src, dst, len) ==
    IF len = 0 THEN <<>>
    ELSE <<[kind |-> "bytes", src |-> src, dst |-> dst, len |-> len,
            todo |-> 0 .. (len - 2)]>>

BytesSteps(src, dst, len) ==
    IF len = 0 THEN <<>>
    ELSE <<[kind |-> "bytes", src |-> src, dst |-> dst, len |-> len,
            todo |-> 0 .. (len - 1)]>>

MarkStep(m) == [kind |-> "mark", src |-> 0, dst |-> m[1], len |-> m[2], todo |-> {}]

\* the calls of copy_single that copy_slice_volatile makes from state st on
RECURSIVE copy_slice_volatile_units(_)
copy_slice_volatile_units(st) ==
    IF st.min_align = 0 THEN st.units
    ELSE copy_slice_volatile_units(copy_aligned_slice_step(st))

copy_slice_steps(dst, src, total) ==
    IF total <= SizeOfUsize
    THEN LET us == copy_slice_volatile_units(
                       copy_slice_volatile_enter(<<>>, dst, src, total))
         IN  [k \in 1 .. Len(us) |-> UnitStep(us[k].src, us[k].dst, us[k].align)]
    ELSE BytesSteps(src, dst, total)

\* Bytes::write, and Bytes::write_slice, which calls it
write_steps(self, b, addr) ==
    IF b.len = 0 \/ addr >= self.size THEN <<>>
    ELSE LET total == Min(b.len, self.size - addr)
         IN  copy_slice_steps(ptr_add(self.addr, addr), b.ptr, total)
             \o <<MarkStep(mark_dirty(self.bitmap, addr, total))>>

\* Bytes::read
read_steps(self, b, addr) ==
    IF b.len = 0 \/ addr >= self.size THEN <<>>
    ELSE LET total == Min(b.len, self.size - addr)
         IN  copy_slice_steps(b.ptr, ptr_add(self.addr, addr), total)

\* Bytes::read_from once the reader has put bytes_read <= count bytes into
\* the vector dst at b.ptr, and Bytes::read_exact_from once read_exact has
\* filled it (bytes_read = count)
read_from_steps(self, b, addr, count, bytes_read) ==
    IF IsErr(compute_end_offset(self, addr, count)) THEN <<>>
    ELSE copy_slice_steps(ptr_add(self.addr, addr), b.ptr, bytes_read)
         \o <<MarkStep(mark_dirty(self.bitmap, addr, bytes_read))>>

\* Bytes::store with an ordering the atomic accepts; the value is at b.ptr
store_steps(self, b, T, addr) ==
    LET r == get_atomic_ref(self, T, addr)
    IN  IF IsErr(r) THEN <<>>
        ELSE <<UnitStep(b.ptr, r.val.addr, T), MarkStep(mark_dirty(self.bitmap, addr, T))>>

\* VolatileRef::store; the value is at b.ptr
VolatileRef_store_steps(self, b) ==
    <<UnitStep(b.ptr, self.addr, self.T), MarkStep(mark_dirty(self.bitmap, 0, self.T))>>

\* VolatileArrayRef::store
VolatileArrayRef_store_steps(self, b, index) ==
    LET r == ref_at(self, index)
    IN  IF r.tag = "Panic" THEN <<>> ELSE VolatileRef_store_steps(r.val, b)

\* VolatileArrayRef::copy_from; b.len counts elements
VolatileArrayRef_copy_from_steps(self, b) ==
    IF self.T = 1
    THEN LET destination == VolatileArrayRef_to_slice(self)
             total == Min(b.len, destination.size)
         IN  copy_slice_steps(destination.addr, b.ptr, total)
             \o <<MarkStep(mark_dirty(self.bitmap, 0, total))>>
    ELSE LET k == Min(b.len, self.nelem)
         IN  [i \in 1 .. k |->
                 UnitStep(b.ptr + (i - 1) * self.T, ptr_add(self.addr, (i - 1) * self.T),
                          self.T)]
             \o <<MarkStep(mark_dirty(self.bitmap, 0, k * self.T))>>

\* VolatileSlice::copy_from::<T>; b.len counts elements
copy_from_steps(self, T, b) ==
    IF T = 1
    THEN LET total == Min(b.len, self.size)
         IN  copy_slice_steps(self.addr, b.ptr, total)
             \o <<MarkStep(mark_dirty(self.bitmap, 0, total * T))>>
    ELSE LET dest == get_array_ref(self, T, 0, self.size \div T)
         IN  IF IsErr(dest) THEN <<>> ELSE VolatileArrayRef_copy_from_steps(dest.val, b)

\* mutant of copy_to_volatile_slice_steps: the destination is marked dirty
\* before the copy
copy_to_volatile_slice_steps_marks_first(self, slice) ==
    LET count == Min(IF self.kind = "slice" THEN self.size ELSE self.nelem * self.T,
                     slice.size)
    IN  <<MarkStep(mark_dirty(slice.bitmap, 0, count))>>
        \o BytesSteps(self.addr, slice.addr, count)

\* copy_to_volatile_slice of VolatileSlice and of VolatileArrayRef
copy_to_volatile_slice_steps(self, slice) ==
    LET count == Min(IF self.kind = "slice" THEN self.size ELSE self.nelem * self.T,
                     slice.size)
    IN  BytesSteps(self.addr, slice.addr, count)
        \o <<MarkStep(mark_dirty(slice.bitmap, 0, count))>>

(***************************************************************************)
(* Inputs.                                                                 *)
(***************************************************************************)
\* base addresses of the root region: a word-aligned one, and the highest
\* one an allocation can have (base + size <= usize::MAX)
RootBases == {16, UsizeMax - RegionLen}

\* offsets and counts: the first few, those around the end of the region,
\* and the top of the address space
Offsets == (0 .. 3) \cup (RegionLen - 1 .. RegionLen + 1) \cup {UsizeMax}

\* size_of::<T>() of the element types
ElemSizes == {1, 2, 4, 8}

ArrayOffsets == {0, 1, RegionLen}

ArrayLens == {0, 1, 2, RegionLen, IsizeMax + 1, UsizeMax}

\* lengths of the caller's buffers: up to and beyond one machine word
BufLens == {0, 1, 2, 3, SizeOfUsize - 1, SizeOfUsize, SizeOfUsize + 1, RegionLen + 1}

\* addresses of the caller's buffers, outside the region: word-aligned and odd
BufPtrs == {32, 35}

InitByte(i) == 100 + i

\* the bytes the caller writes from, and the bytes of a buffer it reads into
SrcByte(i) == i

DstByte(i) == 200 + i

BufHeap(ptr, len, fill) ==
    [a \in ptr .. (ptr + len - 1) |->
        IF fill = "src" THEN SrcByte(a - ptr + 1) ELSE DstByte(a - ptr + 1)]

\* the bytes of the buffer [ptr, len] in heap h, as a sequence
BufSeq(h, b) == [i \in 1 .. b.len |-> h[b.ptr + i - 1]]

\* the bytes of the region in heap h
RegionOf(h) == [a \in DOMAIN mem |-> h[a]]

\* the orderings the caller passes: one that std accepts for a store and
\* for a load, one for a store alone, one for a load alone
Orderings == {"Relaxed", "Release", "Acquire"}

\* the value the caller stores, as the bytes of a T
StoreVal(T) == [i \in 1 .. T |-> SrcByte(i)]

\* addresses and counts of the I/O staging calls
IoAddrs == {0, 1, RegionLen}

IoCounts == {0, 2, RegionLen - 1, UsizeMax}

\* offsets of the atomic accesses
AtomicOffsets == (0 .. 3) \cup {RegionLen - 1, UsizeMax}

\* offsets of the aligned references: an even and an odd one
AlignedOffsets == {0, 1}

\* lengths, in elements, of the caller's typed buffers of element size T
TypedBufLens(T) == {n \in {0, 1, 2, 3, 5, RegionLen + 1} : n * T <= RegionLen + 1}

\* the destinations of copy_to_volatile_slice: slices of the root
OtherSlices ==
    {get_slice(root, oc[1], oc[2]).val : oc \in {<<0, 3>>, <<6, 4>>, <<2, 0>>, <<0, RegionLen>>}}

\* the indexes of the element accesses
ArrayIndexes == (0 .. 2) \cup {RegionLen}

NoArgs == [none |-> TRUE]

NoRes == [tag |-> "None"]

\* no I/O staging call is under way
NoIo == [script |-> <<>>, calls |-> 0, data |-> <<>>, stage |-> <<>>]

\* no call of copy_slice is under way
NoCopy ==
    [pc |-> "none", h |-> <<>>, src |-> 0, dst |-> 0, left |-> 0, align |-> 0,
     min_align |-> 0, units |-> <<>>]

\* no thread has been started
NoThreads == <<>>

\* the threads that call operations on views of one region
Threads == {1, 2}

\* a thread that has not made its call: op is the call, plan its steps,
\* steps those it has yet to take, marked its calls of mark_dirty, wrote the
\* addresses of the region it has written, buf the thread's own buffer
IdleThread ==
    [pc |-> "idle", op |-> "none", plan |-> <<>>, steps |-> <<>>, marked |-> <<>>,
     wrote |-> {}, buf |-> <<>>]

\* the views the threads call on: the root and a slice of it
ConcViews == {root, get_slice(root, 2, 5).val}

\* the destination the threads copy to: a slice that aliases the root
ConcDest == get_slice(root, 7, 3).val

\* a thread's buffer of len bytes
ThreadBuf(len) == [ptr |-> CHOOSE p \in BufPtrs : p % SizeOfUsize = 0, len |-> len]

\* the calls of copy_slice made step by step: buffers at addresses of every
\* alignment up to one machine word, region offsets of every alignment, and
\* totals up to one machine word and just beyond
CopyPtrs == {32, 33, 34, 36, 40}

CopyOffsets == 0 .. 3

CopyTotals == 0 .. (SizeOfUsize + 1)

(***************************************************************************)
(* I/O staging: read_from, read_exact_from, write_to, write_all_to.  The   *)
(* external reader or writer is a script: the outcomes of its successive   *)
(* read / write calls.  Ok(n): n bytes can be moved now (0: end of         *)
(* stream); Err(kind): the call fails; Over: an ill-behaved stream that    *)
(* reports one byte more than the buffer holds.  A script that has run out *)
(* is at the end of the stream.                                            *)
(***************************************************************************)
IOError(e) == [kind |-> "IOError", error |-> e]

Interrupted == Err("Interrupted")

Other == Err("Other")

Over == [tag |-> "Over", val |-> 0]

\* the outcome of the next call of the stream
NextCall(script) == IF script = <<>> THEN Ok(0) ELSE Head(script)

Rest(script) == IF script = <<>> THEN <<>> ELSE Tail(script)

\* src.read(&mut dst) with outcome r, on a reader that has delivered pos
\* bytes: the result and the bytes put at the start of dst
src_read(r, len, pos) ==
    CASE r.tag = "Err"  -> [res |-> r, bytes |-> <<>>]
      [] r.tag = "Over" -> [res |-> Ok(len + 1), bytes |-> <<>>]
      [] r.tag = "Ok"   ->
            LET n == Min(r.val, len)
            IN  [res |-> Ok(n), bytes |-> [i \in 1 .. n |-> SrcByte(pos + i)]]

\* dst.write(&src) with outcome r: the result and the bytes the writer took
dst_write(r, src) ==
    CASE r.tag = "Err"  -> [res |-> r, bytes |-> <<>>]
      [] r.tag = "Over" -> [res |-> Ok(Len(src) + 1), bytes |-> src]
      [] r.tag = "Ok"   ->
            LET n == Min(r.val, Len(src))
            IN  [res |-> Ok(n), bytes |-> SubSeq(src, 1, n)]

\* vec![0; count]
zeros(count) == [i \in 1 .. count |-> 0]

\* a vector with contents v at address ptr, as a heap
VecHeap(ptr, v) == [a \in ptr .. (ptr + Len(v) - 1) |-> v[a - ptr + 1]]

\* std::io::Read::read_exact(&mut dst) with dst of length len, on a reader
\* with the given script: the result, the bytes obtained, the calls made and
\* the script left
RECURSIVE read_exact(_, _, _, _)
read_exact(script, len, got, calls) ==
    IF Len(got) = len THEN [res |-> Ok(TRUE), got |-> got, calls |-> calls, script |-> script]
    ELSE LET rd == src_read(NextCall(script), len - Len(got), Len(got))
         IN  CASE rd.res.tag = "Err" /\ rd.res.val = "Interrupted" ->
                    read_exact(Rest(script), len, got, calls + 1)
               [] rd.res.tag = "Err" /\ rd.res.val # "Interrupted" ->
                    [res |-> rd.res, got |-> got, calls |-> calls + 1,
                     script |-> Rest(script)]
               [] rd.res.tag = "Ok" /\ rd.res.val = 0 ->
                    [res |-> Err("UnexpectedEof"), got |-> got, calls |-> calls + 1,
                     script |-> Rest(script)]
               [] rd.res.tag = "Ok" /\ rd.res.val > len - Len(got) ->
                    [res |-> Panic, got |-> got, calls |-> calls + 1,
                     script |-> Rest(script)]
               [] OTHER ->
                    read_exact(Rest(script), len, got \o rd.bytes, calls + 1)

\* std::io::Write::write_all(&src)
RECURSIVE write_all(_, _, _, _)
write_all(script, src, taken, calls) ==
    IF Len(taken) = Len(src)
    THEN [res |-> Ok(TRUE), taken |-> taken, calls |-> calls, script |-> script]
    ELSE LET wr == dst_write(NextCall(script), SubSeq(src, Len(taken) + 1, Len(src)))
         IN  CASE wr.res.tag = "Err" /\ wr.res.val = "Interrupted" ->
                    write_all(Rest(script), src, taken, calls + 1)
               [] wr.res.tag = "Err" /\ wr.res.val # "Interrupted" ->
                    [res |-> wr.res, taken |-> taken, calls |-> calls + 1,
                     script |-> Rest(script)]
               [] wr.res.tag = "Ok" /\ wr.res.val = 0 ->
                    [res |-> Err("WriteZero"), taken |-> taken, calls |-> calls + 1,
                     script |-> Rest(script)]
               [] wr.res.tag = "Ok" /\ wr.res.val > Len(src) - Len(taken) ->
                    [res |-> Panic, taken |-> taken \o wr.bytes, calls |-> calls + 1,
                     script |-> Rest(script)]
               [] OTHER ->
                    write_all(Rest(script), src, taken \o wr.bytes, calls + 1)

\* the streams the caller passes: one byte, then the rest; interrupted
\* once, then all bytes; interrupted twice, then a failure; one byte, then
\* the end of the stream; one byte, then a failure; ill-behaved
IoScripts ==
    { <<Ok(1), Ok(RegionLen)>>,
      <<Interrupted, Ok(RegionLen)>>,
      <<Interrupted, Interrupted, Other>>,
      <<Ok(1), Ok(0)>>,
      <<Ok(1), Other>>,
      <<Over>> }

\* the outcome of an I/O staging operation, or of one turn of its loop:
\* more: the loop goes round again; bytes: what the stream delivered or took
IoOutcome(more, r, h, ms, bytes) ==
    [more |-> more, res |-> r, heap |-> h, marks |-> ms, bytes |-> bytes]

\* mutant of read_from_enter: a count that goes past the end is clamped
read_from_enter_clamped(self, addr, count) ==
    Ok(zeros(Min(count, self.size - addr)))

\* read_from up to its loop: the bounds check, then dst = vec![0; count]
read_from_enter(self, addr, count) ==
    LET e == compute_end_offset(self, addr, count)
    IN  IF IsErr(e) THEN e ELSE Ok(zeros(count))

\* mutant of read_from_loop: an interrupted read is returned as an IOError
read_from_loop_surfaces(self, h, ptr, dst, addr, count, r) ==
    LET rd == src_read(r, Len(dst), 0)
    IN  IF rd.res.tag = "Err"
        THEN IoOutcome(FALSE, Err(IOError(rd.res.val)), h, <<>>, <<>>)
        ELSE LET bytes_read == rd.res.val
             IN  IF ~(bytes_read <= count) THEN IoOutcome(FALSE, Panic, h, <<>>, rd.bytes)
                 ELSE LET filled == rd.bytes \o SubSeq(dst, bytes_read + 1, Len(dst))
                          c == copy_slice(h @@ VecHeap(ptr, filled),
                                          ptr_add(self.addr, addr), ptr, bytes_read)
                      IN  IoOutcome(FALSE, Ok(bytes_read), c.heap,
                                    <<mark_dirty(self.bitmap, addr, bytes_read)>>, rd.bytes)

\* mutant of read_from_loop: the count asked for is marked dirty, not the
\* count read
read_from_loop_marks_count(self, h, ptr, dst, addr, count, r) ==
    LET rd == src_read(r, Len(dst), 0)
    IN  IF rd.res.tag = "Err" /\ rd.res.val = "Interrupted"
        THEN IoOutcome(TRUE, NoRes, h, <<>>, <<>>)
        ELSE IF rd.res.tag = "Err"
        THEN IoOutcome(FALSE, Err(IOError(rd.res.val)), h, <<>>, <<>>)
        ELSE LET bytes_read == rd.res.val
             IN  IF ~(bytes_read <= count) THEN IoOutcome(FALSE, Panic, h, <<>>, rd.bytes)
                 ELSE LET filled == rd.bytes \o SubSeq(dst, bytes_read + 1, Len(dst))
                          c == copy_slice(h @@ VecHeap(ptr, filled),
                                          ptr_add(self.addr, addr), ptr, bytes_read)
                      IN  IoOutcome(FALSE, Ok(bytes_read), c.heap,
                                    <<mark_dirty(self.bitmap, addr, count)>>, rd.bytes)

\* one turn of the loop of read_from and what follows it; r is the outcome
\* of this turn's src.read(&mut dst), ptr the address of dst
read_from_loop(self, h, ptr, dst, addr, count, r) ==
    LET rd == src_read(r, Len(dst), 0)
    IN  IF rd.res.tag = "Err" /\ rd.res.val = "Interrupted"
        THEN IoOutcome(TRUE, NoRes, h, <<>>, <<>>)
        ELSE IF rd.res.tag = "Err"
        THEN IoOutcome(FALSE, Err(IOError(rd.res.val)), h, <<>>, <<>>)
        ELSE LET bytes_read == rd.res.val
             IN  IF ~(bytes_read <= count) THEN IoOutcome(FALSE, Panic, h, <<>>, rd.bytes)
                 ELSE LET filled == rd.bytes \o SubSeq(dst, bytes_read + 1, Len(dst))
                          c == copy_slice(h @@ VecHeap(ptr, filled),
                                          ptr_add(self.addr, addr), ptr, bytes_read)
                      IN  IoOutcome(FALSE, Ok(bytes_read), c.heap,
                                    <<mark_dirty(self.bitmap, addr, bytes_read)>>, rd.bytes)

\* mutant of read_exact_from: the bytes obtained before the failure are
\* copied into the region before the error is returned
read_exact_from_commits(self, h, ptr, addr, count, script) ==
    LET e == compute_end_offset(self, addr, count)
    IN  IF IsErr(e) THEN [io |-> [res |-> e, got |-> <<>>, calls |-> 0, script |-> script],
                          out |-> Outcome(e, h, <<>>)]
        ELSE LET x == read_exact(script, count, <<>>, 0)
                 n == Len(x.got)
                 c == copy_slice(h @@ VecHeap(ptr, x.got), ptr_add(self.addr, addr), ptr, n)
             IN  [io |-> x,
                  out |-> IF x.res.tag = "Panic" THEN Outcome(Panic, h, <<>>)
                          ELSE IF IsErr(x.res)
                          THEN Outcome(Err(IOError(x.res.val)), c.heap, <<>>)
                          ELSE Outcome(Ok(TRUE), c.heap,
                                       <<mark_dirty(self.bitmap, addr, count)>>)]

\* mutant of read_exact_from: one read is made and a short one is accepted
read_exact_from_one_read(self, h, ptr, addr, count, script) ==
    LET e == compute_end_offset(self, addr, count)
    IN  IF IsErr(e) THEN [io |-> [res |-> e, got |-> <<>>, calls |-> 0, script |-> script],
                          out |-> Outcome(e, h, <<>>)]
        ELSE LET rd == src_read(NextCall(script), count, 0)
                 x == [res |-> rd.res, got |-> rd.bytes, calls |-> 1,
                       script |-> Rest(script)]
             IN  [io |-> x,
                  out |-> IF IsErr(rd.res) \/ rd.res.val > count
                          THEN Outcome(Err(IOError("Other")), h, <<>>)
                          ELSE LET dst == rd.bytes \o zeros(count - Len(rd.bytes))
                                   c == copy_slice(h @@ VecHeap(ptr, dst),
                                                   ptr_add(self.addr, addr), ptr, count)
                               IN  Outcome(Ok(TRUE), c.heap,
                                           <<mark_dirty(self.bitmap, addr, count)>>)]

\* io: what read_exact did with the reader; out: the result and the effects
read_exact_from(self, h, ptr, addr, count, script) ==
    LET e == compute_end_offset(self, addr, count)
    IN  IF IsErr(e) THEN [io |-> [res |-> e, got |-> <<>>, calls |-> 0, script |-> script],
                          out |-> Outcome(e, h, <<>>)]
        ELSE LET x == read_exact(script, count, <<>>, 0)
             IN  [io |-> x,
                  out |-> IF x.res.tag = "Panic" THEN Outcome(Panic, h, <<>>)
                          ELSE IF IsErr(x.res) THEN Outcome(Err(IOError(x.res.val)), h, <<>>)
                          ELSE LET c == copy_slice(h @@ VecHeap(ptr, x.got),
                                                   ptr_add(self.addr, addr), ptr, count)
                               IN  Outcome(Ok(TRUE), c.heap,
                                           <<mark_dirty(self.bitmap, addr, count)>>)]

\* write_to up to its loop: the bounds check, then the copy of region bytes
\* [addr, addr + count) into the vector src at address ptr
write_to_enter(self, h, ptr, addr, count) ==
    LET e == compute_end_offset(self, addr, count)
    IN  IF IsErr(e) THEN e
        ELSE LET c == copy_slice(h @@ VecHeap(ptr, zeros(count)),
                                 ptr, ptr_add(self.addr, addr), count)
             IN  Ok(BufSeq(c.heap, [ptr |-> ptr, len |-> count]))

\* one turn of the loop of write_to; r is the outcome of dst.write(&src)
write_to_loop(h, src, r) ==
    LET wr == dst_write(r, src)
    IN  IF wr.res.tag = "Err" /\ wr.res.val = "Interrupted"
        THEN IoOutcome(TRUE, NoRes, h, <<>>, <<>>)
        ELSE IF wr.res.tag = "Err"
        THEN IoOutcome(FALSE, Err(IOError(wr.res.val)), h, <<>>, <<>>)
        ELSE IoOutcome(FALSE, Ok(wr.res.val), h, <<>>, wr.bytes)

write_all_to(self, h, ptr, addr, count, script) ==
    LET e == write_to_enter(self, h, ptr, addr, count)
    IN  IF IsErr(e) THEN [io |-> [res |-> e, taken |-> <<>>, calls |-> 0, script |-> script],
                          out |-> Outcome(e, h, <<>>)]
        ELSE LET x == write_all(script, e.val, <<>>, 0)
             IN  [io |-> x,
                  out |-> IF x.res.tag = "Panic" THEN Outcome(Panic, h, <<>>)
                          ELSE IF IsErr(x.res) THEN Outcome(Err(IOError(x.res.val)), h, <<>>)
                          ELSE Outcome(Ok(TRUE), h, <<>>)]

(***************************************************************************)
(* The state after construction: the caller holds the whole-region view.   *)
(***************************************************************************)
Init ==
    /\ root \in {with_bitmap(b, RegionLen, slice_at(0, 0)) : b \in RootBases}
    /\ mem = [a \in root.addr .. (root.addr + root.size - 1) |-> InitByte(a - root.addr)]
    /\ dirty = {}
    /\ cur = root
    /\ pc = "idle"
    /\ op = "none"
    /\ args = NoArgs
    /\ res = NoRes
    /\ parent = root
    /\ mem0 = mem
    /\ dirty0 = {}
    /\ marks = <<>>
    /\ buf = <<>>
    /\ io = NoIo
    /\ cp = NoCopy
    /\ th = NoThreads

\* a call that only derives a view: nothing of the region changes
Derived(name, a, r, view) ==
    /\ pc = "idle"
    /\ pc' = "returned"
    /\ op' = name
    /\ args' = a
    /\ res' = r
    /\ parent' = cur
    /\ cur' = view
    /\ mem0' = mem
    /\ dirty0' = dirty
    /\ marks' = <<>>
    /\ buf' = <<>>
    /\ UNCHANGED <<root, mem, dirty, io, cp, th>>

GetSlice ==
    /\ cur.kind = "slice"
    /\ \E o \in Offsets, c \in Offsets :
        LET r == get_slice(cur, o, c)
        IN  Derived("get_slice", [offset |-> o, count |-> c], r,
                    IF IsOk(r) THEN r.val ELSE cur)

Subslice ==
    /\ cur.kind = "slice"
    /\ \E o \in Offsets, c \in Offsets :
        LET r == subslice(cur, o, c)
        IN  Derived("subslice", [offset |-> o, count |-> c], r,
                    IF IsOk(r) THEN r.val ELSE cur)

Offset ==
    /\ cur.kind = "slice"
    /\ \E c \in Offsets :
        LET r == offset(cur, c)
        IN  Derived("offset", [count |-> c], r, IF IsOk(r) THEN r.val ELSE cur)

\* the caller goes on with either half
SplitAt ==
    /\ cur.kind = "slice"
    /\ \E mid \in Offsets, half \in {1, 2} :
        LET r == split_at(cur, mid)
        IN  Derived("split_at", [mid |-> mid, half |-> half], r,
                    IF IsOk(r) THEN r.val[half] ELSE cur)

GetRef ==
    /\ cur.kind = "slice"
    /\ \E T \in ElemSizes, o \in Offsets :
        LET r == get_ref(cur, T, o)
        IN  Derived("get_ref", [T |-> T, offset |-> o], r,
                    IF IsOk(r) THEN r.val ELSE cur)

GetArrayRef ==
    /\ cur.kind = "slice"
    /\ \E T \in ElemSizes, o \in ArrayOffsets, n \in ArrayLens :
        LET r == get_array_ref(cur, T, o, n)
        IN  Derived("get_array_ref", [T |-> T, offset |-> o, n |-> n], r,
                    IF IsOk(r) THEN r.val ELSE cur)

RefAt ==
    /\ cur.kind = "array"
    /\ \E i \in 0 .. RegionLen :
        LET r == ref_at(cur, i)
        IN  Derived("ref_at", [index |-> i], r, IF IsOk(r) THEN r.val ELSE cur)

ToSlice ==
    /\ cur.kind \in {"ref", "array"}
    /\ LET s == IF cur.kind = "ref" THEN VolatileRef_to_slice(cur)
                ELSE VolatileArrayRef_to_slice(cur)
       IN  Derived("to_slice", NoArgs, Ok(s), s)

IntoArrayRef ==
    /\ cur.kind = "slice"
    /\ LET a == VolatileArrayRef_from(cur)
       IN  Derived("into_array_ref", NoArgs, Ok(a), a)

\* a call of a Bytes accessor with buffer b, whose outcome is out
Accessed(name, a, b, out) ==
    /\ pc = "idle"
    /\ pc' = "returned"
    /\ op' = name
    /\ args' = a
    /\ res' = out.res
    /\ parent' = cur
    /\ mem0' = mem
    /\ dirty0' = dirty
    /\ mem' = RegionOf(out.heap)
    /\ marks' = out.marks
    /\ dirty' = dirty \cup MarkedBy(out.marks)
    /\ buf' = BufSeq(out.heap, b)
    /\ UNCHANGED <<root, cur, io, cp, th>>

Write ==
    /\ cur.kind = "slice"
    /\ \E len \in BufLens, ptr \in BufPtrs, addr \in Offsets :
        LET b == [ptr |-> ptr, len |-> len]
            h == mem @@ BufHeap(ptr, len, "src")
        IN  Accessed("write", [buf |-> BufSeq(h, b), addr |-> addr], b,
                     write(cur, h, b, addr))

Read ==
    /\ cur.kind = "slice"
    /\ \E len \in BufLens, ptr \in BufPtrs, addr \in Offsets :
        LET b == [ptr |-> ptr, len |-> len]
            h == mem @@ BufHeap(ptr, len, "dst")
        IN  Accessed("read", [buf |-> BufSeq(h, b), addr |-> addr], b,
                     read(cur, h, b, addr))

WriteSlice ==
    /\ cur.kind = "slice"
    /\ \E len \in BufLens, ptr \in BufPtrs, addr \in Offsets :
        LET b == [ptr |-> ptr, len |-> len]
            h == mem @@ BufHeap(ptr, len, "src")
        IN  Accessed("write_slice", [buf |-> BufSeq(h, b), addr |-> addr], b,
                     write_slice(cur, h, b, addr))

ReadSlice ==
    /\ cur.kind = "slice"
    /\ \E len \in BufLens, ptr \in BufPtrs, addr \in Offsets :
        LET b == [ptr |-> ptr, len |-> len]
            h == mem @@ BufHeap(ptr, len, "dst")
        IN  Accessed("read_slice", [buf |-> BufSeq(h, b), addr |-> addr], b,
                     read_slice(cur, h, b, addr))

CheckAlignment ==
    /\ cur.kind = "slice"
    /\ \E n \in ElemSizes :
        Derived("check_alignment", [alignment |-> n], check_alignment(cur, n), cur)

AlignedAsRef ==
    /\ cur.kind = "slice"
    /\ \E T \in ElemSizes, o \in AlignedOffsets :
        Derived("aligned_as_ref", [T |-> T, offset |-> o], aligned_as_ref(cur, T, o), cur)

GetAtomicRef ==
    /\ cur.kind = "slice"
    /\ \E T \in ElemSizes, o \in Offsets :
        Derived("get_atomic_ref", [T |-> T, offset |-> o], get_atomic_ref(cur, T, o), cur)

Store ==
    /\ cur.kind = "slice"
    /\ \E T \in ElemSizes, addr \in AtomicOffsets, order \in Orderings :
        Accessed("store", [T |-> T, val |-> StoreVal(T), addr |-> addr, order |-> order],
                 [ptr |-> 0, len |-> 0],
                 store(cur, mem, T, StoreVal(T), addr, order))

Load ==
    /\ cur.kind = "slice"
    /\ \E T \in ElemSizes, addr \in AtomicOffsets, order \in Orderings :
        Accessed("load", [T |-> T, addr |-> addr, order |-> order],
                 [ptr |-> 0, len |-> 0],
                 load(cur, mem, T, addr, order))

CopyTo ==
    /\ cur.kind = "slice"
    /\ \E T \in ElemSizes, ptr \in BufPtrs :
        \E n \in TypedBufLens(T) :
            LET b == [ptr |-> ptr, len |-> n * T]
                h == mem @@ BufHeap(ptr, n * T, "dst")
            IN  Accessed("copy_to", [T |-> T, n |-> n, buf |-> BufSeq(h, b)], b,
                         copy_to(cur, h, T, [ptr |-> ptr, len |-> n]))

CopyFrom ==
    /\ cur.kind = "slice"
    /\ \E T \in ElemSizes, ptr \in BufPtrs :
        \E n \in TypedBufLens(T) :
            LET b == [ptr |-> ptr, len |-> n * T]
                h == mem @@ BufHeap(ptr, n * T, "src")
            IN  Accessed("copy_from", [T |-> T, n |-> n, buf |-> BufSeq(h, b)], b,
                         copy_from(cur, h, T, [ptr |-> ptr, len |-> n]))

ArrayCopyTo ==
    /\ cur.kind = "array"
    /\ \E ptr \in BufPtrs, n \in TypedBufLens(cur.T) :
        LET b == [ptr |-> ptr, len |-> n * cur.T]
            h == mem @@ BufHeap(ptr, n * cur.T, "dst")
        IN  Accessed("copy_to", [T |-> cur.T, n |-> n, buf |-> BufSeq(h, b)], b,
                     VolatileArrayRef_copy_to(cur, h, [ptr |-> ptr, len |-> n]))

ArrayCopyFrom ==
    /\ cur.kind = "array"
    /\ \E ptr \in BufPtrs, n \in TypedBufLens(cur.T) :
        LET b == [ptr |-> ptr, len |-> n * cur.T]
            h == mem @@ BufHeap(ptr, n * cur.T, "src")
        IN  Accessed("copy_from", [T |-> cur.T, n |-> n, buf |-> BufSeq(h, b)], b,
                     VolatileArrayRef_copy_from(cur, h, [ptr |-> ptr, len |-> n]))

CopyToVolatileSlice ==
    /\ cur.kind \in {"slice", "array"}
    /\ \E slice \in OtherSlices :
        Accessed("copy_to_volatile_slice", [slice |-> slice], [ptr |-> 0, len |-> 0],
                 copy_to_volatile_slice(cur, mem, slice))

RefStore ==
    /\ cur.kind = "ref"
    /\ Accessed("ref_store", [T |-> cur.T, val |-> StoreVal(cur.T)], [ptr |-> 0, len |-> 0],
                VolatileRef_store(cur, mem, StoreVal(cur.T)))

RefLoad ==
    /\ cur.kind = "ref"
    /\ Accessed("ref_load", [T |-> cur.T], [ptr |-> 0, len |-> 0], VolatileRef_load(cur, mem))

ArrayStore ==
    /\ cur.kind = "array"
    /\ \E i \in ArrayIndexes :
        Accessed("array_store", [T |-> cur.T, index |-> i, val |-> StoreVal(cur.T)],
                 [ptr |-> 0, len |-> 0],
                 VolatileArrayRef_store(cur, mem, i, StoreVal(cur.T)))

ArrayLoad ==
    /\ cur.kind = "array"
    /\ \E i \in ArrayIndexes :
        Accessed("array_load", [T |-> cur.T, index |-> i], [ptr |-> 0, len |-> 0],
                 VolatileArrayRef_load(cur, mem, i))

\* the caller stores through the reference that get_atomic_ref returned
AtomicRefStore ==
    /\ pc = "returned"
    /\ op = "get_atomic_ref"
    /\ IsOk(res)
    /\ \E order \in Orderings :
        /\ op' = "atomic_ref_store"
        /\ args' = [T |-> args.T, offset |-> args.offset, val |-> StoreVal(args.T),
                    order |-> order]
        /\ res' = IF order \in StoreOrderings THEN Ok(TRUE) ELSE Panic
        /\ mem' = IF order \in StoreOrderings
                  THEN atomic_store(mem, res.val, StoreVal(args.T))
                  ELSE mem
        /\ UNCHANGED <<root, dirty, cur, pc, parent, mem0, dirty0, marks, buf, io, cp, th>>

\* an I/O staging call has returned with outcome out; x: the script left,
\* the calls made of the stream, the bytes it delivered or took
IoReturned(out, script, calls, data) ==
    /\ pc' = "returned"
    /\ res' = out.res
    /\ mem' = RegionOf(out.heap)
    /\ marks' = out.marks
    /\ dirty' = dirty \cup MarkedBy(out.marks)
    /\ io' = [io EXCEPT !.script = script, !.calls = calls, !.data = data]
    /\ UNCHANGED <<root, cur, buf, cp, th>>

\* an I/O staging call is entered
IoCalled(name, a) ==
    /\ pc = "idle"
    /\ op' = name
    /\ args' = a
    /\ parent' = cur
    /\ mem0' = mem
    /\ dirty0' = dirty

\* read_from up to its loop
ReadFrom ==
    /\ cur.kind = "slice"
    /\ \E addr \in IoAddrs, count \in IoCounts, script \in IoScripts :
        LET e == read_from_enter(cur, addr, count)
        IN  /\ IoCalled("read_from", [addr |-> addr, count |-> count, script |-> script])
            /\ pc' = IF IsErr(e) THEN "returned" ELSE "read_from"
            /\ res' = IF IsErr(e) THEN e ELSE NoRes
            /\ io' = [script |-> script, calls |-> 0, data |-> <<>>,
                      stage |-> IF IsErr(e) THEN <<>> ELSE e.val]
            /\ marks' = <<>>
            /\ UNCHANGED <<root, mem, dirty, cur, buf, cp, th>>

\* one turn of the loop of read_from: one call of the reader, and the rest
\* of read_from when the call was not interrupted
ReadFromLoop ==
    /\ pc = "read_from"
    /\ \E ptr \in BufPtrs :
        \E t \in {read_from_loop(parent, mem, ptr, io.stage, args.addr, args.count,
                                  NextCall(io.script))} :
            IF t.more
            THEN /\ io' = [io EXCEPT !.script = Rest(io.script), !.calls = io.calls + 1]
                 /\ UNCHANGED <<root, mem, dirty, cur, pc, op, args, res, parent,
                                mem0, dirty0, marks, buf, cp, th>>
            ELSE /\ IoReturned(t, Rest(io.script), io.calls + 1, t.bytes)
                 /\ UNCHANGED <<op, args, parent, mem0, dirty0>>

ReadExactFrom ==
    /\ cur.kind = "slice"
    /\ \E addr \in IoAddrs, count \in IoCounts, script \in IoScripts, ptr \in BufPtrs :
        LET x == read_exact_from(cur, mem, ptr, addr, count, script)
        IN  /\ IoCalled("read_exact_from",
                        [addr |-> addr, count |-> count, script |-> script])
            /\ IoReturned(x.out, x.io.script, x.io.calls, x.io.got)

\* write_to up to its loop
WriteTo ==
    /\ cur.kind = "slice"
    /\ \E addr \in IoAddrs, count \in IoCounts, script \in IoScripts, ptr \in BufPtrs :
        LET e == write_to_enter(cur, mem, ptr, addr, count)
        IN  /\ IoCalled("write_to", [addr |-> addr, count |-> count, script |-> script])
            /\ pc' = IF IsErr(e) THEN "returned" ELSE "write_to"
            /\ res' = IF IsErr(e) THEN e ELSE NoRes
            /\ io' = [script |-> script, calls |-> 0, data |-> <<>>,
                      stage |-> IF IsErr(e) THEN <<>> ELSE e.val]
            /\ marks' = <<>>
            /\ UNCHANGED <<root, mem, dirty, cur, buf, cp, th>>

\* one turn of the loop of write_to: one call of the writer
WriteToLoop ==
    /\ pc = "write_to"
    /\ LET t == write_to_loop(mem, io.stage, NextCall(io.script))
       IN  IF t.more
           THEN /\ io' = [io EXCEPT !.script = Rest(io.script), !.calls = io.calls + 1]
                /\ UNCHANGED <<root, mem, dirty, cur, pc, op, args, res, parent,
                               mem0, dirty0, marks, buf, cp, th>>
           ELSE /\ IoReturned(t, Rest(io.script), io.calls + 1, t.bytes)
                /\ UNCHANGED <<op, args, parent, mem0, dirty0>>

WriteAllTo ==
    /\ cur.kind = "slice"
    /\ \E addr \in IoAddrs, count \in IoCounts, script \in IoScripts, ptr \in BufPtrs :
        LET x == write_all_to(cur, mem, ptr, addr, count, script)
        IN  /\ IoCalled("write_all_to",
                        [addr |-> addr, count |-> count, script |-> script])
            /\ IoReturned(x.out, x.io.script, x.io.calls, x.io.taken)

\* write(buf, addr) / read(buf, addr) with a buffer of `total` bytes that
\* fits: the call copy_slice(dst, src, total) is entered
CopySliceCall ==
    /\ pc = "idle"
    /\ cur.kind = "slice"
    /\ \E dir \in {"write", "read"}, ptr \in CopyPtrs, o \in CopyOffsets, total \in CopyTotals :
        LET at == ptr_add(cur.addr, o)
            dst == IF dir = "write" THEN at ELSE ptr
            src == IF dir = "write" THEN ptr ELSE at
            h == mem @@ BufHeap(ptr, total, IF dir = "write" THEN "src" ELSE "dst")
        IN  /\ o + total <= cur.size
            /\ pc' = "copy_slice"
            /\ op' = "copy_slice"
            /\ args' = [dir |-> dir, ptr |-> ptr, dst |-> dst, src |-> src, total |-> total,
                        h |-> h]
            /\ cp' = IF total <= SizeOfUsize
                     THEN [pc |-> "volatile"] @@ copy_slice_volatile_enter(h, dst, src, total)
                     ELSE [pc |-> "bulk"] @@ [copy_slice_volatile_enter(h, dst, src, total)
                                               EXCEPT !.align = 0, !.min_align = 0]
            /\ res' = NoRes
            /\ parent' = cur
            /\ mem0' = mem
            /\ dirty0' = dirty
            /\ marks' = <<>>
            /\ buf' = <<>>
            /\ UNCHANGED <<root, mem, dirty, cur, io, th>>

\* one turn of the while loop of the closure: one call of copy_single
CopySingle ==
    /\ cp.pc = "volatile"
    /\ cp.min_align # 0
    /\ copy_aligned_slice_turns(cp)
    /\ cp' = copy_aligned_slice_step(cp)
    /\ UNCHANGED <<root, mem, dirty, cur, pc, op, args, res, parent, mem0, dirty0, marks,
                   buf, io, th>>

\* the closure is left without a turn of its loop
CopyAlignedSliceReturn ==
    /\ cp.pc = "volatile"
    /\ cp.min_align # 0
    /\ ~copy_aligned_slice_turns(cp)
    /\ cp' = copy_aligned_slice_step(cp)
    /\ UNCHANGED <<root, mem, dirty, cur, pc, op, args, res, parent, mem0, dirty0, marks,
                   buf, io, th>>

\* the other branch of copy_slice: copy_nonoverlapping
CopyBulk ==
    /\ cp.pc = "bulk"
    /\ cp' = [cp EXCEPT !.pc = "copied",
                        !.h = copy_nonoverlapping(cp.h, cp.src, cp.dst, cp.left),
                        !.left = 0]
    /\ UNCHANGED <<root, mem, dirty, cur, pc, op, args, res, parent, mem0, dirty0, marks,
                   buf, io, th>>

\* copy_slice returns `total`
CopySliceReturn ==
    /\ \/ cp.pc = "volatile" /\ cp.min_align = 0
       \/ cp.pc = "copied"
    /\ cp' = [cp EXCEPT !.pc = "done"]
    /\ pc' = "returned"
    /\ res' = Ok(args.total)
    /\ mem' = RegionOf(cp.h)
    /\ buf' = BufSeq(cp.h, [ptr |-> args.ptr, len |-> args.total])
    /\ UNCHANGED <<root, dirty, cur, op, args, parent, mem0, dirty0, marks, io, th>>

\* the caller starts the threads, which share the region and its bitmap
Spawn ==
    /\ pc = "idle"
    /\ th = NoThreads
    /\ pc' = "threads"
    /\ op' = "spawn"
    /\ th' = [i \in Threads |-> IdleThread]
    /\ UNCHANGED <<root, mem, dirty, cur, args, res, parent, mem0, dirty0, marks, buf, io, cp>>

\* thread i enters the call `name` that takes `steps`, its buffer being h
Called(i, name, steps, h) ==
    /\ th # NoThreads
    /\ th[i].pc = "idle"
    /\ th' = [th EXCEPT ![i] = [pc |-> "running", op |-> name, plan |-> steps,
                                steps |-> steps, marked |-> <<>>, wrote |-> {},
                                buf |-> h]]
    /\ UNCHANGED <<root, mem, dirty, cur, pc, op, args, res, parent, mem0, dirty0,
                   marks, buf, io, cp>>

ThreadWrite ==
    \E i \in Threads, v \in ConcViews :
        LET b == ThreadBuf(3)
        IN  Called(i, "write", write_steps(v, b, 1), BufHeap(b.ptr, b.len, "src"))

ThreadWriteSlice ==
    \E i \in Threads, v \in ConcViews :
        LET b == ThreadBuf(3)
        IN  Called(i, "write_slice", write_steps(v, b, 3), BufHeap(b.ptr, b.len, "src"))

ThreadRead ==
    \E i \in Threads, v \in ConcViews, addr \in {1, 7} :
        LET b == ThreadBuf(3)
        IN  Called(i, "read", read_steps(v, b, addr), BufHeap(b.ptr, b.len, "dst"))

ThreadReadFrom ==
    \E i \in Threads, v \in ConcViews :
        LET b == ThreadBuf(3)
        IN  Called(i, "read_from", read_from_steps(v, b, 1, b.len, 2),
                   BufHeap(b.ptr, b.len, "src"))

ThreadReadExactFrom ==
    \E i \in Threads, v \in ConcViews :
        LET b == ThreadBuf(2)
        IN  Called(i, "read_exact_from", read_from_steps(v, b, 0, b.len, b.len),
                   BufHeap(b.ptr, b.len, "src"))

ThreadStore ==
    \E i \in Threads, v \in ConcViews, addr \in {1, 2} :
        LET b == ThreadBuf(2)
        IN  Called(i, "store", store_steps(v, b, 2, addr), BufHeap(b.ptr, b.len, "src"))

ThreadCopyFrom ==
    \E i \in Threads, v \in ConcViews, T \in {1, 2} :
        LET b == ThreadBuf(2)
        IN  Called(i, "copy_from", copy_from_steps(v, T, b),
                   BufHeap(b.ptr, b.len * T, "src"))

ThreadCopyToVolatileSlice ==
    \E i \in Threads, v \in ConcViews :
        Called(i, "copy_to_volatile_slice", copy_to_volatile_slice_steps(v, ConcDest),
               <<>>)

ThreadRefStore ==
    \E i \in Threads, v \in ConcViews :
        LET b == ThreadBuf(2)
        IN  Called(i, "ref_store", VolatileRef_store_steps(get_ref(v, 2, 1).val, b),
                   BufHeap(b.ptr, b.len, "src"))

ThreadArrayStore ==
    \E i \in Threads, v \in ConcViews :
        LET b == ThreadBuf(2)
        IN  Called(i, "array_store",
                   VolatileArrayRef_store_steps(get_array_ref(v, 2, 0, 2).val, b, 1),
                   BufHeap(b.ptr, b.len, "src"))

ThreadArrayCopyFrom ==
    \E i \in Threads, v \in ConcViews :
        LET b == ThreadBuf(2)
        IN  Called(i, "array_copy_from",
                   VolatileArrayRef_copy_from_steps(get_array_ref(v, 2, 1, 2).val, b),
                   BufHeap(b.ptr, b.len * 2, "src"))

\* thread i has taken the first of its steps: h is the memory it sees, the
\* region and its own buffer, after the step, w the addresses it wrote
Stepped(i, rest, h, w) ==
    /\ mem' = RegionOf(h)
    /\ th' = [th EXCEPT ![i].steps = rest,
                        ![i].buf = [a \in DOMAIN th[i].buf |-> h[a]],
                        ![i].wrote = @ \cup (w \cap DOMAIN mem)]
    /\ UNCHANGED <<root, dirty, cur, pc, op, args, res, parent, mem0, dirty0, marks,
                   buf, io, cp>>

\* one volatile or atomic access of a thread
ThreadUnit ==
    \E i \in Threads :
        /\ th # NoThreads
        /\ th[i].pc = "running"
        /\ th[i].steps # <<>>
        /\ Head(th[i].steps).kind = "unit"
        /\ LET s == Head(th[i].steps)
           IN  Stepped(i, Tail(th[i].steps), copy(mem @@ th[i].buf, s.src, s.dst, s.len),
                       s.dst .. (s.dst + s.len - 1))

\* one byte of a thread's std::ptr::copy
ThreadByte ==
    \E i \in Threads :
        /\ th # NoThreads
        /\ th[i].pc = "running"
        /\ th[i].steps # <<>>
        /\ Head(th[i].steps).kind = "bytes"
        /\ LET s == Head(th[i].steps)
           IN  \E o \in s.todo :
                   Stepped(i,
                           IF s.todo = {o} THEN Tail(th[i].steps)
                           ELSE <<[s EXCEPT !.todo = @ \ {o}]>> \o Tail(th[i].steps),
                           copy(mem @@ th[i].buf, s.src + o, s.dst + o, 1),
                           {s.dst + o})

\* a thread's call of mark_dirty: the bitmap is shared and synchronized
ThreadMark ==
    \E i \in Threads :
        /\ th # NoThreads
        /\ th[i].pc = "running"
        /\ th[i].steps # <<>>
        /\ Head(th[i].steps).kind = "mark"
        /\ LET s == Head(th[i].steps)
           IN  /\ dirty' = dirty \cup MarkRange(<<s.dst, s.len>>)
               /\ th' = [th EXCEPT ![i].steps = Tail(@),
                                   ![i].marked = Append(@, <<s.dst, s.len>>)]
        /\ UNCHANGED <<root, mem, cur, pc, op, args, res, parent, mem0, dirty0, marks,
                       buf, io, cp>>

\* a thread's call returns
ThreadReturn ==
    \E i \in Threads :
        /\ th # NoThreads
        /\ th[i].pc = "running"
        /\ th[i].steps = <<>>
        /\ th' = [th EXCEPT ![i].pc = "returned"]
        /\ UNCHANGED <<root, mem, dirty, cur, pc, op, args, res, parent, mem0, dirty0,
                       marks, buf, io, cp>>

\* the caller takes the result and goes on, unless the call mutated the region
Continue ==
    /\ pc = "returned"
    /\ mem = mem0
    /\ dirty = dirty0
    /\ res.tag # "Panic"
    /\ pc' = "idle"
    /\ op' = "none"
    /\ args' = NoArgs
    /\ res' = NoRes
    /\ parent' = cur
    /\ marks' = <<>>
    /\ buf' = <<>>
    /\ io' = NoIo
    /\ cp' = NoCopy
    /\ UNCHANGED <<root, mem, dirty, cur, mem0, dirty0, th>>

Next ==
    \/ GetSlice
    \/ Subslice
    \/ Offset
    \/ SplitAt
    \/ GetRef
    \/ GetArrayRef
    \/ RefAt
    \/ ToSlice
    \/ IntoArrayRef
    \/ Write
    \/ Read
    \/ WriteSlice
    \/ ReadSlice
    \/ CheckAlignment
    \/ AlignedAsRef
    \/ GetAtomicRef
    \/ Store
    \/ Load
    \/ ReadFrom
    \/ ReadFromLoop
    \/ ReadExactFrom
    \/ WriteTo
    \/ WriteToLoop
    \/ WriteAllTo
    \/ CopyTo
    \/ CopyFrom
    \/ ArrayCopyTo
    \/ ArrayCopyFrom
    \/ CopyToVolatileSlice
    \/ RefStore
    \/ RefLoad
    \/ ArrayStore
    \/ ArrayLoad
    \/ AtomicRefStore
    \/ Continue

Spec == Init /\ [][Next]_vars

\* the steps of a call of copy_slice
CopyStep == CopySingle \/ CopyAlignedSliceReturn \/ CopyBulk \/ CopySliceReturn

\* the caller of copy_slice
CopyNext ==
    \/ CopySliceCall
    \/ CopySingle
    \/ CopyAlignedSliceReturn
    \/ CopyBulk
    \/ CopySliceReturn
    \/ Continue

\* a call of copy_slice that was entered runs on, step after step
CopySpec == Init /\ [][CopyNext]_vars /\ WF_cp(CopyStep)

\* the threads, each making one call on a view of the shared region
ConcNext ==
    \/ Spawn
    \/ ThreadWrite
    \/ ThreadWriteSlice
    \/ ThreadRead
    \/ ThreadReadFrom
    \/ ThreadReadExactFrom
    \/ ThreadStore
    \/ ThreadCopyFrom
    \/ ThreadCopyToVolatileSlice
    \/ ThreadRefStore
    \/ ThreadArrayStore
    \/ ThreadArrayCopyFrom
    \/ ThreadUnit
    \/ ThreadByte
    \/ ThreadMark
    \/ ThreadReturn

ConcSpec == Init /\ [][ConcNext]_vars

\* the number of calls made of the stream: every turn of a loop adds one
IoCalls == io.calls

\* the caller of the operations that have a retry loop: it advances its
\* slice and calls read_from and write_to on it
IoNext ==
    \/ Offset
    \/ ReadFrom
    \/ ReadFromLoop
    \/ WriteTo
    \/ WriteToLoop
    \/ Continue

\* the loops of read_from and write_to run on: a call under way takes its
\* next turn
IoSpec ==
    Init /\ [][IoNext]_vars /\ WF_IoCalls(ReadFromLoop) /\ WF_IoCalls(WriteToLoop)

(***************************************************************************)
(* Properties.                                                             *)
(***************************************************************************)
\* the call `name` has returned
Returned(name) == pc = "returned" /\ op = name

\* the byte range of view v lies inside the root's and does not wrap
Inside(v) ==
    /\ v.addr >= root.addr
    /\ v.addr + ByteLen(v) <= root.addr + root.size
    /\ v.addr + ByteLen(v) <= UsizeMax

\* reading one byte at offset i of slice v: the result and the byte read
ReadByte(v, i) ==
    LET b == [ptr |-> CHOOSE p \in BufPtrs : TRUE, len |-> 1]
        out == read(v, mem @@ BufHeap(b.ptr, 1, "dst"), b, i)
    IN  [res |-> out.res, byte |-> BufSeq(out.heap, b)[1]]

\* C1: every view derived from the root by any sequence of get_slice,
\* subslice, offset, split_at (either half), get_ref, get_array_ref, ref_at,
\* to_slice and the slice-to-byte-array conversion has its byte range
\* [addr, addr + length) inside the root's range, and addr + length does not
\* wrap around the address space.
C1_ViewContainment ==
    /\ Inside(cur)
    /\ (Returned("split_at") /\ IsOk(res)) => (Inside(res.val[1]) /\ Inside(res.val[2]))

\* C1 witness: a slice made from a ref of a derived view ends exactly at the
\* end of the root that ends at the top of the address space.
C1_Witness ==
    /\ Returned("to_slice")
    /\ parent.kind = "ref"
    /\ cur.addr > root.addr
    /\ cur.addr + cur.size = UsizeMax

\* C2: get_slice(offset, count) on a view of length len succeeds whenever
\* offset + count <= len (also for offset = len, count = 0), with a view of
\* length count that starts offset bytes after the parent; it fails
\* Overflow{base: offset, offset: count} when offset + count exceeds
\* usize::MAX and OutOfBounds{addr: offset + count} otherwise.
C2_GetSlice ==
    Returned("get_slice") =>
        LET o == args.offset
            c == args.count
            len == parent.size
        IN  /\ (o + c <= len) =>
                /\ IsOk(res)
                /\ res.val.kind = "slice"
                /\ res.val.size = c
                /\ res.val.addr = parent.addr + o
            /\ (o + c > UsizeMax) =>
                /\ IsErrKind(res, "Overflow")
                /\ res.val.base = o
                /\ res.val.offset = c
            /\ (o + c <= UsizeMax /\ o + c > len) =>
                /\ IsErrKind(res, "OutOfBounds")
                /\ res.val.addr = o + c

\* C2 witness: an empty view taken at the very end of a non-empty derived view.
C2_Witness ==
    /\ Returned("get_slice")
    /\ IsOk(res)
    /\ parent # root
    /\ parent.size > 0
    /\ args.offset = parent.size
    /\ args.count = 0

\* split_at(mid) with mid <= N: halves of lengths (mid, N - mid) that cover
\* bytes [0, mid) and [mid, N) of the view; with mid > N: an error, no view.
SplitAtHalves ==
    LET mid == args.mid
        N == parent.size
    IN  /\ (mid <= N) =>
            /\ IsOk(res)
            /\ res.val[1].size = mid
            /\ res.val[2].size = N - mid
            /\ res.val[1].addr = parent.addr
            /\ res.val[2].addr = parent.addr + mid
            /\ cur = res.val[args.half]
        /\ (mid > N) => (IsErr(res) /\ cur = parent)

\* C3 as stated: split_at(mid) gives halves of lengths (mid, N - mid) for
\* mid in [0, N], fails for every mid > N, and fails OutOfBounds for
\* mid = N + 1.
C3_SplitAt_Stated ==
    Returned("split_at") =>
        /\ SplitAtHalves
        /\ (args.mid = parent.size + 1) => IsErrKind(res, "OutOfBounds")

\* C3 amended: as stated, except that split_at(N + 1) fails OutOfBounds only
\* when addr + N + 1 fits in usize; on a view that ends at usize::MAX the
\* checked addition of offset() fails first, with Overflow{base: addr,
\* offset: mid}.
C3_SplitAt ==
    Returned("split_at") =>
        /\ SplitAtHalves
        /\ (args.mid = parent.size + 1 /\ parent.addr + args.mid <= UsizeMax) =>
            /\ IsErrKind(res, "OutOfBounds")
            /\ res.val.addr = parent.addr + args.mid
        /\ (args.mid = parent.size + 1 /\ parent.addr + args.mid > UsizeMax) =>
            /\ IsErrKind(res, "Overflow")
            /\ res.val.base = parent.addr
            /\ res.val.offset = args.mid

\* C3 witness: split_at(N + 1) on a view that ends at the top of the address
\* space has failed with Overflow.
C3_Witness ==
    /\ Returned("split_at")
    /\ args.mid = parent.size + 1
    /\ parent.addr + parent.size = UsizeMax
    /\ IsErrKind(res, "Overflow")

\* C4: offset(k) on a view S of length N: for k <= N the result has length
\* N - k and reading its byte i gives the byte k + i of S, for every
\* i < N - k; for k > N it fails with OutOfBounds or Overflow.
C4_Offset ==
    Returned("offset") =>
        LET k == args.count
            N == parent.size
        IN  /\ (k <= N) =>
                /\ IsOk(res)
                /\ cur = res.val
                /\ cur.size = N - k
                /\ \A i \in 0 .. (N - k - 1) :
                    /\ IsOk(ReadByte(cur, i).res)
                    /\ ReadByte(cur, i) = ReadByte(parent, k + i)
            /\ (k > N) =>
                /\ IsErr(res)
                /\ res.val.kind \in {"OutOfBounds", "Overflow"}

\* C4 witness: a derived view advanced by k > 0 bytes, with bytes left to read.
C4_Witness ==
    /\ Returned("offset")
    /\ IsOk(res)
    /\ parent # root
    /\ args.count > 0
    /\ cur.size > 1

\* C5: after write(b, a) with a + len(b) <= len, reading len(b) bytes at a
\* gives exactly b, for buffers of at most one machine word and for larger
\* ones.
C5_WriteReadRoundTrip ==
    (Returned("write") /\ args.addr + Len(args.buf) <= parent.size) =>
        LET L == Len(args.buf)
            b == [ptr |-> CHOOSE p \in BufPtrs : TRUE, len |-> L]
            out == read(parent, mem @@ BufHeap(b.ptr, L, "dst"), b, args.addr)
        IN  /\ IsOk(res)
            /\ IsOk(out.res)
            /\ out.res.val = L
            /\ BufSeq(out.heap, b) = args.buf

\* C5 witness: a buffer longer than one machine word written inside a view,
\* not at its start.
C5_Witness ==
    /\ Returned("write")
    /\ Len(args.buf) > SizeOfUsize
    /\ args.addr > 0
    /\ args.addr + Len(args.buf) <= parent.size

\* C6: write(buf, addr) with L = len(buf): 0 for an empty buf at any addr;
\* OutOfBounds{addr} for L > 0 and addr >= len; otherwise n = min(L, len -
\* addr), region bytes [addr, addr + n) equal buf[0..n) and every other
\* region byte is unchanged.
C6_Write ==
    Returned("write") =>
        LET L == Len(args.buf)
            a == args.addr
            len == parent.size
            n == Min(L, len - a)
        IN  /\ (L = 0) => (IsOk(res) /\ res.val = 0)
            /\ (L > 0 /\ a >= len) =>
                /\ IsErrKind(res, "OutOfBounds")
                /\ res.val.addr = a
            /\ (L > 0 /\ a < len) =>
                /\ IsOk(res)
                /\ res.val = n
                /\ \A i \in 0 .. (n - 1) : mem[parent.addr + a + i] = args.buf[i + 1]
                /\ \A x \in DOMAIN mem :
                    (x < parent.addr + a \/ x >= parent.addr + a + n) => mem[x] = mem0[x]

\* C6 witness: a write cut short at the end of a view that lies strictly
\* inside the region.
C6_Witness ==
    /\ Returned("write")
    /\ IsOk(res)
    /\ res.val > 0
    /\ res.val < Len(args.buf)
    /\ parent.addr > root.addr
    /\ parent.addr + parent.size < root.addr + root.size

\* C7: read(buf, addr): 0 for an empty buf at any addr; OutOfBounds{addr}
\* for a non-empty buf and addr >= len; otherwise n = min(len(buf), len -
\* addr) and buf[0..n) equals region bytes [addr, addr + n), with buf[n..]
\* and every byte of the region unmodified.
C7_Read ==
    Returned("read") =>
        LET L == Len(args.buf)
            a == args.addr
            len == parent.size
            n == Min(L, len - a)
        IN  /\ mem = mem0
            /\ (L = 0) => (IsOk(res) /\ res.val = 0)
            /\ (L > 0 /\ a >= len) =>
                /\ IsErrKind(res, "OutOfBounds")
                /\ res.val.addr = a
            /\ (L > 0 /\ a < len) =>
                /\ IsOk(res)
                /\ res.val = n
                /\ \A i \in 0 .. (n - 1) : buf[i + 1] = mem0[parent.addr + a + i]
                /\ \A j \in (n + 1) .. L : buf[j] = args.buf[j]

\* C7 witness: a read cut short at the end of a view, leaving the tail of
\* the buffer as it was.
C7_Witness ==
    /\ Returned("read")
    /\ IsOk(res)
    /\ res.val > 0
    /\ res.val < Len(args.buf)
    /\ args.addr > 0
    /\ parent # root

\* C8: write_slice / read_slice return Ok exactly when the underlying write
\* / read moved all len(buf) bytes; with addr < len and addr + L > len they
\* fail PartialBuffer{expected: L, completed: len - addr}; an OutOfBounds of
\* the underlying call is returned unchanged.
C8_SliceVariants ==
    (Returned("write_slice") \/ Returned("read_slice")) =>
        LET L == Len(args.buf)
            a == args.addr
            len == parent.size
            moved == IF L = 0 \/ a >= len THEN 0 ELSE Min(L, len - a)
        IN  /\ IsOk(res) <=> (L = 0 \/ (a < len /\ moved = L))
            /\ (a < len /\ a + L > len) =>
                /\ IsErrKind(res, "PartialBuffer")
                /\ res.val.expected = L
                /\ res.val.completed = len - a
            /\ (L > 0 /\ a >= len) =>
                /\ IsErrKind(res, "OutOfBounds")
                /\ res.val.addr = a
            /\ Returned("write_slice") =>
                \A i \in 0 .. (moved - 1) : mem[parent.addr + a + i] = args.buf[i + 1]
            /\ Returned("read_slice") =>
                \A i \in 0 .. (moved - 1) : buf[i + 1] = mem0[parent.addr + a + i]

\* C8 witness: read_slice has failed with PartialBuffer on a derived view.
C8_Witness ==
    /\ Returned("read_slice")
    /\ IsErrKind(res, "PartialBuffer")
    /\ res.val.completed > 0
    /\ parent # root

\* C9 as stated: whenever write_slice returns an error, no byte of the
\* region is modified and the dirty handle is as before; whenever read_slice
\* returns an error, the caller's buffer is unmodified.
C9_AllOrNothing_Stated ==
    /\ (Returned("write_slice") /\ IsErr(res)) => (mem = mem0 /\ dirty = dirty0)
    /\ (Returned("read_slice") /\ IsErr(res)) => buf = args.buf

\* C9 amended: write_slice / read_slice are all-or-error.  When they fail
\* OutOfBounds nothing is modified (region, dirty handle, buffer).  When
\* write_slice fails PartialBuffer{expected, completed}, the first
\* `completed` bytes of buf are in region bytes [addr, addr + completed),
\* exactly that range is marked dirty and all other region bytes are
\* unchanged; when read_slice fails PartialBuffer, buf[0..completed) holds
\* region bytes [addr, addr + completed) and buf[completed..] is unmodified.
C9_AllOrError ==
    /\ (Returned("write_slice") /\ IsErrKind(res, "OutOfBounds")) =>
        (mem = mem0 /\ dirty = dirty0)
    /\ (Returned("read_slice") /\ IsErrKind(res, "OutOfBounds")) =>
        (buf = args.buf /\ mem = mem0 /\ dirty = dirty0)
    /\ (Returned("write_slice") /\ IsErrKind(res, "PartialBuffer")) =>
        LET n == res.val.completed
            at == parent.addr + args.addr
        IN  /\ n > 0
            /\ \A i \in 0 .. (n - 1) : mem[at + i] = args.buf[i + 1]
            /\ \A x \in DOMAIN mem : (x < at \/ x >= at + n) => mem[x] = mem0[x]
            /\ dirty = dirty0 \cup
                 {parent.bitmap + args.addr + i : i \in 0 .. (n - 1)}
    /\ (Returned("read_slice") /\ IsErrKind(res, "PartialBuffer")) =>
        LET n == res.val.completed
        IN  /\ n > 0
            /\ \A i \in 0 .. (n - 1) : buf[i + 1] = mem0[parent.addr + args.addr + i]
            /\ \A j \in (n + 1) .. Len(args.buf) : buf[j] = args.buf[j]
            /\ mem = mem0
            /\ dirty = dirty0

\* C9 witness: write_slice has failed with PartialBuffer after writing more
\* than one machine word.
C9_Witness ==
    /\ Returned("write_slice")
    /\ IsErrKind(res, "PartialBuffer")
    /\ res.val.completed > SizeOfUsize
    /\ mem # mem0

\* C10: a non-empty write that succeeds with n bytes makes exactly one
\* mark_dirty(addr, n) on the view's handle, so exactly [addr, addr + n) of
\* the handle is newly marked; a failed or empty write marks nothing.
C10_WriteMarksDirty ==
    Returned("write") =>
        /\ (IsOk(res) /\ Len(args.buf) > 0) =>
            /\ res.val > 0
            /\ marks = <<mark_dirty(parent.bitmap, args.addr, res.val)>>
            /\ dirty = dirty0 \cup
                 {parent.bitmap + args.addr + i : i \in 0 .. (res.val - 1)}
        /\ (IsErr(res) \/ Len(args.buf) = 0) =>
            /\ marks = <<>>
            /\ dirty = dirty0

\* C10 witness: a write cut short through a view whose handle is not at the
\* start of the root's bitmap.
C10_Witness ==
    /\ Returned("write")
    /\ IsOk(res)
    /\ res.val > 1
    /\ res.val < Len(args.buf)
    /\ parent.bitmap > 0
    /\ args.addr > 0

\* the offsets of the root's handle that cover bytes [x, x + n) of view v
RootRange(v, x, n) == {v.addr - root.addr + x + i : i \in 0 .. (n - 1)}

\* C11: every view derived from the root by any nesting of get_slice,
\* subslice, offset, split_at (both halves), get_ref, get_array_ref, ref_at
\* and to_slice has its dirty handle based at offset view.addr - root.addr
\* of the root's handle, so a write or an atomic store of view bytes
\* [x, x + n) is recorded on the root's handle as
\* [view.addr - root.addr + x, view.addr - root.addr + x + n).
C11_DirtyComposition ==
    /\ cur.bitmap = cur.addr - root.addr
    /\ (Returned("split_at") /\ IsOk(res)) =>
        \A half \in {1, 2} : res.val[half].bitmap = res.val[half].addr - root.addr
    /\ (Returned("write") /\ IsOk(res) /\ res.val > 0) =>
        /\ marks = <<<<parent.addr - root.addr + args.addr, res.val>>>>
        /\ dirty = dirty0 \cup RootRange(parent, args.addr, res.val)
    /\ (Returned("store") /\ IsOk(res)) =>
        /\ marks = <<<<parent.addr - root.addr + args.addr, args.T>>>>
        /\ dirty = dirty0 \cup RootRange(parent, args.addr, args.T)

\* C11 witness: a complete write, not at the start, of a view that starts
\* five bytes into the root, which takes at least two derivations.
C11_Witness ==
    /\ Returned("write")
    /\ IsOk(res)
    /\ res.val >= 2
    /\ res.val = Len(args.buf)
    /\ args.addr > 0
    /\ parent.addr - root.addr = 5

\* C12 as stated: after a read that moves n > 0 bytes at addr, the range
\* [addr, addr + n) of the view's dirty handle is marked, as after a write.
C12_ReadMarksDirty_Stated ==
    ((Returned("read") \/ Returned("write")) /\ IsOk(res) /\ res.val > 0) =>
        RootRange(parent, args.addr, res.val) \subseteq dirty

\* C12 amended: only write marks the range it touched.  After a write that
\* moves n > 0 bytes at addr, [addr, addr + n) of the view's dirty handle is
\* marked; read makes no mark_dirty call, and the dirty handle after any
\* read is what it was before.
C12_OnlyWriteMarksDirty ==
    /\ (Returned("write") /\ IsOk(res) /\ res.val > 0) =>
        RootRange(parent, args.addr, res.val) \subseteq dirty
    /\ Returned("read") => (marks = <<>> /\ dirty = dirty0)

\* C12 witness: a read has moved more than one machine word out of a view
\* and no offset of the dirty handle is marked.
C12_Witness ==
    /\ Returned("read")
    /\ IsOk(res)
    /\ res.val > SizeOfUsize
    /\ dirty = {}

\* the atomic access of the call that returned is in bounds and naturally
\* aligned
AtomicInBounds == args.addr + args.T <= parent.size

AtomicAligned == (parent.addr + args.addr) % align_of(args.T) = 0

\* what C13 says of a store, for the orderings in `legal`
StoreRoundTrip(legal) ==
    (Returned("store") /\ AtomicInBounds /\ AtomicAligned /\ args.order \in legal) =>
        LET at == parent.addr + args.addr
        IN  /\ IsOk(res)
            /\ \A x \in DOMAIN mem : (x < at \/ x >= at + args.T) => mem[x] = mem0[x]
            /\ dirty = dirty0 \cup RootRange(parent, args.addr, args.T)
            /\ \A o \in LoadOrderings :
                LET l == load(parent, mem, args.T, args.addr, o)
                IN  /\ IsOk(l.res)
                    /\ l.res.val = args.val
                    /\ l.heap = mem
                    /\ l.marks = <<>>

\* what C13 says of a load, for the orderings in `legal`
LoadUnchanged(legal) ==
    Returned("load") =>
        /\ mem = mem0
        /\ dirty = dirty0
        /\ (AtomicInBounds /\ AtomicAligned /\ args.order \in legal) =>
            /\ IsOk(res)
            /\ res.val = [i \in 1 .. args.T |-> mem0[parent.addr + args.addr + i - 1]]

\* C13 as stated: for every in-bounds, naturally aligned addr and every
\* ordering, store returns Ok, changes only bytes [addr, addr + sizeof(T)),
\* marks exactly that range and a following load returns the value; load
\* returns the bytes at addr and changes nothing.
C13_AtomicRoundTrip_Stated ==
    /\ StoreRoundTrip(Orderings)
    /\ LoadUnchanged(Orderings)

\* C13 amended: as stated, for the orderings std accepts for the operation
\* (store: Relaxed, Release, SeqCst; load: Relaxed, Acquire, SeqCst).  With
\* any other ordering the atomic operation panics once the address has been
\* resolved: nothing is stored and nothing is marked.
C13_AtomicRoundTrip ==
    /\ StoreRoundTrip(StoreOrderings)
    /\ LoadUnchanged(LoadOrderings)
    /\ (Returned("store") /\ AtomicInBounds /\ AtomicAligned
            /\ args.order \notin StoreOrderings) =>
        (res.tag = "Panic" /\ mem = mem0 /\ dirty = dirty0 /\ marks = <<>>)
    /\ (Returned("load") /\ AtomicInBounds /\ AtomicAligned
            /\ args.order \notin LoadOrderings) =>
        res.tag = "Panic"

\* C13 witness: a store of a machine word through a derived view has
\* returned Ok.
C13_Witness ==
    /\ Returned("store")
    /\ IsOk(res)
    /\ args.T = SizeOfUsize
    /\ parent # root
    /\ mem # mem0

\* the call that returned resolves its address through get_atomic_ref
ViaAtomicRef == Returned("get_atomic_ref") \/ Returned("store") \/ Returned("load")

AtomicOffset == IF op = "get_atomic_ref" THEN args.offset ELSE args.addr

\* C14 as stated: get_atomic_ref, store and load fail Misaligned at every
\* offset whose absolute address is not a multiple of T's alignment, in
\* bounds or not.
C14_Misaligned_Stated ==
    (ViaAtomicRef /\ (parent.addr + AtomicOffset) % align_of(args.T) # 0) =>
        IsErrKind(res, "Misaligned")

\* C14 amended: the bounds are checked first.  For every offset with
\* offset + sizeof(T) <= len whose absolute address is not a multiple of
\* T's alignment, get_atomic_ref (and store, load) fails Misaligned{addr:
\* absolute address, alignment}; for every offset with offset + sizeof(T) >
\* len it fails OutOfBounds or Overflow, whatever the alignment.
C14_Misaligned ==
    ViaAtomicRef =>
        LET o == AtomicOffset
            T == args.T
        IN  /\ (o + T <= parent.size /\ (parent.addr + o) % align_of(T) # 0) =>
                /\ IsErrKind(res, "Misaligned")
                /\ res.val.addr = parent.addr + o
                /\ res.val.alignment = align_of(T)
            /\ (o + T > parent.size) =>
                /\ IsErr(res)
                /\ res.val.kind \in {"OutOfBounds", "Overflow"}
            /\ IsErrKind(res, "Misaligned") => (mem = mem0 /\ dirty = dirty0)

\* C14 witness: get_atomic_ref at a misaligned address past the end of the
\* view has failed OutOfBounds.
C14_Witness ==
    /\ Returned("get_atomic_ref")
    /\ (parent.addr + args.offset) % align_of(args.T) # 0
    /\ args.offset < parent.size
    /\ args.offset + args.T > parent.size
    /\ IsErrKind(res, "OutOfBounds")

\* C15: check_alignment(n), n a power of two, fails Misaligned{addr:
\* absolute address, alignment: n} exactly when the absolute address is not
\* a multiple of n; so of the requests of a 2-byte-aligned type at offsets 0
\* and 1 of a view of at least 3 bytes, exactly one fails Misaligned.
C15_CheckAlignment ==
    /\ Returned("check_alignment") =>
        /\ (parent.addr % args.alignment # 0) =>
            /\ IsErrKind(res, "Misaligned")
            /\ res.val.addr = parent.addr
            /\ res.val.alignment = args.alignment
        /\ (parent.addr % args.alignment = 0) => IsOk(res)
    /\ (Returned("aligned_as_ref") /\ args.T = 2 /\ args.offset \in {0, 1}
            /\ parent.size >= 3) =>
        LET other == aligned_as_ref(parent, 2, 1 - args.offset)
        IN  /\ IsOk(res) \/ IsErrKind(res, "Misaligned")
            /\ IsOk(other) \/ IsErrKind(other, "Misaligned")
            /\ IsErrKind(res, "Misaligned") # IsErrKind(other, "Misaligned")

\* C15 witness: check_alignment(4) has failed on a view at an even address.
C15_Witness ==
    /\ Returned("check_alignment")
    /\ args.alignment = 4
    /\ parent.addr % 2 = 0
    /\ IsErrKind(res, "Misaligned")

\* C16: whenever an operation returns OutOfBounds, Overflow, TooBig or
\* Misaligned, no region byte was written, nothing was marked dirty, no
\* view was produced, nothing was put in the caller's buffer and the
\* external reader or writer was not called; read_from, read_exact_from,
\* write_to and write_all_to with addr + count > len fail so, and do not
\* clamp the transfer.
C16_ErrorsBeforeAccess ==
    /\ (pc = "returned" /\ IsErr(res)
            /\ res.val.kind \in {"OutOfBounds", "Overflow", "TooBig", "Misaligned"}) =>
        /\ mem = mem0
        /\ dirty = dirty0
        /\ marks = <<>>
        /\ cur = parent
        /\ io.calls = 0
        /\ io.data = <<>>
        /\ (op \in {"read", "read_slice"}) => buf = args.buf
    /\ (op \in {"read_from", "read_exact_from", "write_to", "write_all_to"}
            /\ args.addr + args.count > parent.size) =>
        /\ pc = "returned"
        /\ IsErr(res)
        /\ res.val.kind \in {"OutOfBounds", "Overflow"}

\* C16 witness: read_from of a count that goes past the end, from an
\* address inside the view, has failed OutOfBounds with the reader untouched.
C16_Witness ==
    /\ Returned("read_from")
    /\ IsErrKind(res, "OutOfBounds")
    /\ args.addr < parent.size
    /\ args.count > 0
    /\ io.calls = 0
    /\ io.script = args.script

\* C17: get_array_ref<T>(offset, n) fails TooBig{nelements: n, size:
\* sizeof(T)} exactly when n * sizeof(T) exceeds isize::MAX, also when
\* offset is out of bounds; otherwise it succeeds iff offset + n * sizeof(T)
\* <= len, so every array view it returns has count * sizeof(T) <=
\* isize::MAX.
C17_GetArrayRef ==
    Returned("get_array_ref") =>
        LET n == args.n
            T == args.T
            o == args.offset
        IN  /\ (n * T > IsizeMax) =>
                /\ IsErrKind(res, "TooBig")
                /\ res.val.nelements = n
                /\ res.val.size = T
            /\ (n * T <= IsizeMax) =>
                /\ ~IsErrKind(res, "TooBig")
                /\ IsOk(res) <=> (o + n * T <= parent.size)
            /\ IsOk(res) =>
                /\ res.val.kind = "array"
                /\ res.val.nelem = n
                /\ res.val.T = T
                /\ res.val.nelem * res.val.T <= IsizeMax

\* C17 witness: TooBig from the multiplication (n itself fits isize) at an
\* offset past the end of the view.
C17_Witness ==
    /\ Returned("get_array_ref")
    /\ IsErrKind(res, "TooBig")
    /\ args.n <= IsizeMax
    /\ args.offset > parent.size

\* the outcome of the last call made of the stream
LastCall ==
    IF io.calls >= 1 /\ io.calls <= Len(args.script) THEN args.script[io.calls] ELSE Ok(0)

IsInterrupted(r) == r.tag = "Err" /\ r.val = "Interrupted"

\* C18: if the reader of read_from returns an I/O error that is not
\* `interrupted`, or the reader of read_exact_from fails or ends before
\* count bytes were obtained, the operation returns IOError with that I/O
\* error (UnexpectedEof when the stream ended), and every region byte and
\* the dirty handle are as before the call.
C18_NothingCommitted ==
    /\ ((Returned("read_from") \/ Returned("read_exact_from")) /\ IsErrKind(res, "IOError")) =>
        /\ mem = mem0
        /\ dirty = dirty0
        /\ marks = <<>>
        /\ io.calls > 0
        /\ IF LastCall.tag = "Err" THEN res.val.error = LastCall.val
           ELSE op = "read_exact_from" /\ res.val.error = "UnexpectedEof"
    /\ (Returned("read_from") /\ io.calls > 0 /\ LastCall.tag = "Err") =>
        IsErrKind(res, "IOError")
    /\ (Returned("read_exact_from") /\ io.calls > 0 /\ res.tag # "Panic"
            /\ Len(io.data) < args.count) =>
        IsErrKind(res, "IOError")

\* C18 witness: read_exact_from has failed after some but not all bytes
\* were obtained from the reader.
C18_Witness ==
    /\ Returned("read_exact_from")
    /\ IsErrKind(res, "IOError")
    /\ Len(io.data) > 0
    /\ Len(io.data) < args.count
    /\ LastCall.tag = "Err"

\* a call of read_from or write_to is in its loop
InLoop == pc \in {"read_from", "write_to"}

\* the calls made of the stream before the last one were all interrupted
RetriedOnly(k) == \A i \in 1 .. k : IsInterrupted(args.script[i])

\* C19: read_from and write_to call the reader / writer again whenever it
\* reports `interrupted`: while the call is in its loop, every call made so
\* far was interrupted and no region byte or dirty mark has changed; the
\* call returns at the first outcome that is not `interrupted`, never with
\* `interrupted`; and a call in its loop eventually returns.
C19_InterruptRetry ==
    /\ [](InLoop => (RetriedOnly(io.calls) /\ mem = mem0 /\ dirty = dirty0))
    /\ []((Returned("read_from") \/ Returned("write_to")) =>
            /\ ~(IsErrKind(res, "IOError") /\ res.val.error = "Interrupted")
            /\ (io.calls > 0) =>
                /\ RetriedOnly(io.calls - 1)
                /\ ~IsInterrupted(LastCall)
                /\ (LastCall.tag = "Err") =>
                    (IsErrKind(res, "IOError") /\ res.val.error = LastCall.val)
                /\ (LastCall.tag = "Ok") =>
                    (IsOk(res) /\ res.val = Min(LastCall.val, args.count)))
    /\ (InLoop ~> pc = "returned")

\* C19 witness: write_to has returned Ok from its second call of the writer.
C19_Witness ==
    /\ Returned("write_to")
    /\ IsOk(res)
    /\ io.calls = 2
    /\ IsInterrupted(args.script[1])

\* C20: read_exact_from returns Ok only if exactly count bytes were
\* obtained from the reader; then region bytes [addr, addr + count) are
\* those bytes in order, all other region bytes are unchanged and exactly
\* [addr, addr + count) is marked dirty.  write_all_to returns Ok only if
\* the writer took exactly region bytes [addr, addr + count) in order, and
\* never changes the region or the dirty handle.
C20_MustComplete ==
    /\ (Returned("read_exact_from") /\ IsOk(res)) =>
        LET at == parent.addr + args.addr
            n == args.count
        IN  /\ io.data = [i \in 1 .. n |-> SrcByte(i)]
            /\ \A i \in 0 .. (n - 1) : mem[at + i] = io.data[i + 1]
            /\ \A x \in DOMAIN mem : (x < at \/ x >= at + n) => mem[x] = mem0[x]
            /\ dirty = dirty0 \cup RootRange(parent, args.addr, n)
            /\ marks = <<mark_dirty(parent.bitmap, args.addr, n)>>
    /\ Returned("write_all_to") =>
        /\ mem = mem0
        /\ dirty = dirty0
        /\ marks = <<>>
        /\ IsOk(res) =>
            io.data = [i \in 1 .. args.count |-> mem0[parent.addr + args.addr + i - 1]]

\* C20 witness: read_exact_from has returned Ok with more than one machine
\* word, obtained in two reads.
C20_Witness ==
    /\ Returned("read_exact_from")
    /\ IsOk(res)
    /\ args.count > SizeOfUsize
    /\ io.calls = 2

\* the typed copy that returned was made on a byte-range view
SliceCopy(name) == Returned(name) /\ parent.kind = "slice"

\* what a typed copy of m bytes between the view and buf does to the bytes
\* it moves
MovesBytes(m) ==
    /\ Returned("copy_to") =>
        /\ IsOk(res)
        /\ res.val * args.T = m
        /\ \A i \in 1 .. m : buf[i] = mem0[parent.addr + i - 1]
    /\ Returned("copy_from") =>
        /\ IsOk(res)
        /\ \A i \in 1 .. m : mem[parent.addr + i - 1] = args.buf[i]

NonOverlapping ==
    \/ parent.addr + ByteLen(parent) <= args.slice.addr
    \/ args.slice.addr + args.slice.size <= parent.addr

\* C22: copy_to_volatile_slice(other) copies n = min(own length, other
\* length) bytes: other's bytes from n on, and every byte outside other,
\* are unchanged; exactly one mark_dirty(0, n) is made, on other's handle;
\* and for views that do not overlap, other's bytes [0, n) equal the
\* source's, the source's bytes are unchanged and no offset of the source's
\* range is newly marked.
C22_CopyToVolatileSlice ==
    Returned("copy_to_volatile_slice") =>
        LET other == args.slice
            n == Min(ByteLen(parent), other.size)
        IN  /\ \A x \in DOMAIN mem :
                (x < other.addr \/ x >= other.addr + n) => mem[x] = mem0[x]
            /\ marks = <<mark_dirty(other.bitmap, 0, n)>>
            /\ dirty = dirty0 \cup RootRange(other, 0, n)
            /\ NonOverlapping =>
                /\ \A i \in 0 .. (n - 1) : mem[other.addr + i] = mem0[parent.addr + i]
                /\ \A i \in 0 .. (ByteLen(parent) - 1) :
                    mem[parent.addr + i] = mem0[parent.addr + i]
                /\ RootRange(parent, 0, ByteLen(parent)) \cap dirty
                     = RootRange(parent, 0, ByteLen(parent)) \cap dirty0

\* C22 witness: a copy into a shorter slice that lies before the source.
C22_Witness ==
    /\ Returned("copy_to_volatile_slice")
    /\ NonOverlapping
    /\ args.slice.size = 3
    /\ ByteLen(parent) > 3
    /\ parent.addr > args.slice.addr
    /\ mem # mem0

C29_ReadFromCommit ==
    (Returned("read_from") /\ args.addr + args.count <= parent.size) =>
        LET at == parent.addr + args.addr
        IN  /\ io.calls >= 1
            /\ RetriedOnly(io.calls - 1)
            /\ (LastCall.tag = "Ok") =>
                LET n == Min(LastCall.val, args.count)
                IN  /\ res = Ok(n)
                    /\ Len(io.data) = n
                    /\ \A i \in 1 .. n : mem[at + i - 1] = io.data[i]
                    /\ \A x \in DOMAIN mem :
                        (x < at \/ x >= at + n) => mem[x] = mem0[x]
                    /\ marks = <<mark_dirty(parent.bitmap, args.addr, n)>>
                    /\ dirty = dirty0 \cup RootRange(parent, args.addr, n)
            /\ (LastCall.tag = "Over") =>
                (res.tag = "Panic" /\ mem = mem0 /\ dirty = dirty0 /\ marks = <<>>)

\* C29 witness: a reader that supplied one byte of the two asked for, at
\* an address inside a derived view.
C29_Witness ==
    /\ Returned("read_from")
    /\ res = Ok(1)
    /\ args.count = 2
    /\ args.addr > 0
    /\ parent # root
    /\ mem # mem0

\* C30: a store through the reference that get_atomic_ref returned changes
\* region bytes [offset, offset + sizeof(T)) and makes no mark_dirty call:
\* the dirty handle is as before; store<T>(v, offset, order) on the same
\* view leaves the same bytes and marks [offset, offset + sizeof(T)).
C30_AtomicRefUntracked ==
    (pc = "returned" /\ op = "atomic_ref_store") =>
        /\ dirty = dirty0
        /\ marks = <<>>
        /\ IsOk(res) =>
            LET at == parent.addr + args.offset
                st == store(parent, mem0, args.T, args.val, args.offset, args.order)
            IN  /\ \A j \in 1 .. args.T : mem[at + j - 1] = args.val[j]
                /\ \A x \in DOMAIN mem :
                    (x < at \/ x >= at + args.T) => mem[x] = mem0[x]
                /\ IsOk(st.res)
                /\ st.heap = mem
                /\ st.marks = <<mark_dirty(parent.bitmap, args.offset, args.T)>>
                /\ MarkedBy(st.marks) = RootRange(parent, args.offset, args.T)
                /\ MarkedBy(st.marks) # {}

\* C30 witness: a machine word stored through the reference, with no offset
\* of the dirty handle marked.
C30_Witness ==
    /\ pc = "returned"
    /\ op = "atomic_ref_store"
    /\ IsOk(res)
    /\ args.T = SizeOfUsize
    /\ mem # mem0
    /\ dirty = {}

\* the calls of copy_single made so far that wrote byte i of the destination
UnitsCovering(i) ==
    {k \in 1 .. Len(cp.units) :
        cp.units[k].dst <= args.dst + i /\ args.dst + i < cp.units[k].dst + cp.units[k].align}

\* C23: copy_slice takes the unit loop exactly when total is at most one
\* machine word, and copy_nonoverlapping otherwise.  In the unit loop, for
\* every pair of addresses of any alignment, every call of copy_single
\* strictly decreases the count left and no byte is written twice; when
\* copy_slice returns, it returns total, the count left is 0, every byte of
\* the destination was written exactly once and equals the source's, and
\* no byte outside [dst, dst + total) has changed; and every call that was
\* entered returns.
C23_CopyEngine ==
    /\ [](cp.pc = "volatile" =>
            /\ args.total <= SizeOfUsize
            /\ cp.left <= args.total
            /\ \A i \in 0 .. (args.total - 1) : Cardinality(UnitsCovering(i)) <= 1
            /\ Cardinality({i \in 0 .. (args.total - 1) : UnitsCovering(i) # {}})
                 = args.total - cp.left)
    /\ [](cp.pc \in {"bulk", "copied"} => (args.total > SizeOfUsize /\ cp.units = <<>>))
    /\ [][CopySingle => (cp'.left < cp.left /\ Len(cp'.units) = Len(cp.units) + 1)]_vars
    /\ [](Returned("copy_slice") =>
            /\ res = Ok(args.total)
            /\ cp.left = 0
            /\ \A i \in 0 .. (args.total - 1) : cp.h[args.dst + i] = args.h[args.src + i]
            /\ \A a \in DOMAIN args.h :
                (a < args.dst \/ a >= args.dst + args.total) => cp.h[a] = args.h[a]
            /\ (args.total <= SizeOfUsize) =>
                \A i \in 0 .. (args.total - 1) : Cardinality(UnitsCovering(i)) = 1
            /\ cp.h = copy_slice(args.h, args.dst, args.src, args.total).heap)
    /\ (pc = "copy_slice" ~> Returned("copy_slice"))

\* C23 witness: seven bytes written into the region in three units, of
\* four, two and one bytes.
C23_Witness ==
    /\ Returned("copy_slice")
    /\ args.dir = "write"
    /\ args.total = SizeOfUsize - 1
    /\ Len(cp.units) = 3
    /\ mem # mem0

\* C27: every call of copy_single made by copy_slice_volatile, of unit size
\* u in {8, 4, 2, 1}, is at a source address and a destination address that
\* are multiples of u, lies inside [src, src + total) and [dst, dst + total),
\* and has u <= min(alignment(src), alignment(dst)); alignment(a) is the
\* largest power of two that divides a, for every address a # 0.
C27_AlignedUnits ==
    /\ \A a \in 1 .. UsizeMax :
        LET g == alignment(a)
        IN  /\ g \in {2^k : k \in 0 .. (UsizeBits - 1)}
            /\ a % g = 0
            /\ a % (2 * g) # 0
    /\ (op = "copy_slice") =>
        \A k \in 1 .. Len(cp.units) :
            LET u == cp.units[k]
            IN  /\ u.align \in {8, 4, 2, 1}
                /\ u.src % u.align = 0
                /\ u.dst % u.align = 0
                /\ u.src >= args.src
                /\ u.src + u.align <= args.src + args.total
                /\ u.dst >= args.dst
                /\ u.dst + u.align <= args.dst + args.total
                /\ u.align <= Min(alignment(args.src), alignment(args.dst))

\* C27 witness: a unit of four bytes, then one of two, between addresses
\* whose common alignment is four.
C27_Witness ==
    /\ op = "copy_slice"
    /\ Len(cp.units) >= 2
    /\ cp.units[1].align = 4
    /\ cp.units[2].align = 2
    /\ Min(alignment(args.src), alignment(args.dst)) = 4


\* the steps of a sequence that move bytes
Transfers(steps) == {k \in 1 .. Len(steps) : steps[k].kind # "mark"}

\* the addresses of the region that the call of thread record t is to write
Dest(t) ==
    UNION {t.plan[k].dst .. (t.plan[k].dst + t.plan[k].len - 1) : k \in Transfers(t.plan)}
        \cap DOMAIN mem

\* the addresses of the region that the call of t has yet to write
Left(t) ==
    UNION {IF t.steps[k].kind = "unit"
           THEN t.steps[k].dst .. (t.steps[k].dst + t.steps[k].len - 1)
           ELSE {t.steps[k].dst + o : o \in t.steps[k].todo} : k \in Transfers(t.steps)}
        \cap DOMAIN mem

\* the addresses of the region that the call of t has marked dirty
Marked(t) == UNION {{root.addr + o : o \in MarkRange(t.marked[k])} : k \in 1 .. Len(t.marked)}

\* the address that the call of t copies to address a from
SourceOf(t, a) ==
    LET k == CHOOSE k \in Transfers(t.plan) :
                 a \in t.plan[k].dst .. (t.plan[k].dst + t.plan[k].len - 1)
    IN  t.plan[k].src + (a - t.plan[k].dst)

\* the byte that the call of t puts at address a of the region
NewByte(t, a) == (mem0 @@ t.buf)[SourceOf(t, a)]

\* the addresses of the region that the read of t copies from
ReadRange(t) ==
    UNION {t.plan[k].src .. (t.plan[k].src + t.plan[k].len - 1) : k \in Transfers(t.plan)}

\* the byte the read of t has put in its buffer for address a of the region
Observed(t, a) ==
    LET k == CHOOSE k \in Transfers(t.plan) :
                 a \in t.plan[k].src .. (t.plan[k].src + t.plan[k].len - 1)
    IN  t.buf[t.plan[k].dst + (a - t.plan[k].src)]

\* C25: a whole-range copy is not atomic but is complete when it returns.
\* Once a copying call has returned, every byte of its destination range has
\* been written and the range is marked dirty, and, no other thread having
\* written, each byte of the range equals its source byte; a call that has
\* bytes left to copy has not returned.  A read by another thread, through
\* an aliasing view, that has returned holds for each address either the
\* byte from before the copy or the byte the copy puts there.
C25_CopyNotAtomic ==
    th # NoThreads =>
        \A i \in Threads : \A j \in Threads \ {i} :
            /\ Left(th[i]) # {} => th[i].pc # "returned"
            /\ th[i].pc = "returned" =>
                   /\ th[i].wrote = Dest(th[i])
                   /\ \A a \in Dest(th[i]) : (a - root.addr) \in dirty
                   /\ th[j].wrote = {} =>
                          \A a \in Dest(th[i]) : mem[a] = NewByte(th[i], a)
            /\ th[i].op = "read" /\ th[i].pc = "returned" =>
                   \A a \in ReadRange(th[i]) :
                       \/ Observed(th[i], a) = mem0[a]
                       \/ /\ a \in Dest(th[j])
                          /\ Observed(th[i], a) = NewByte(th[j], a)

\* a read that has returned saw one byte of a copy_to_volatile_slice in
\* place and another not, the copy being under way and nothing marked dirty
C25_Witness ==
    /\ th # NoThreads
    /\ \E i \in Threads : \E j \in Threads \ {i} :
           /\ th[i].op = "read"
           /\ th[i].pc = "returned"
           /\ th[j].op = "copy_to_volatile_slice"
           /\ th[j].pc = "running"
           /\ Left(th[j]) # {}
           /\ dirty = {}
           /\ \E a \in ReadRange(th[i]) \cap Dest(th[j]) :
                  /\ Observed(th[i], a) = NewByte(th[j], a)
                  /\ Observed(th[i], a) # mem0[a]
           /\ \E a \in ReadRange(th[i]) \cap Dest(th[j]) :
                  /\ Observed(th[i], a) = mem0[a]
                  /\ Observed(th[i], a) # NewByte(th[j], a)

\* C26: dirty tracking is sound under every interleaving.  In each thread's
\* call, mark_dirty is called after the call's bytes are written (a call
\* that has marked has no byte left to write) and before it returns (a call
\* that has returned has marked every address it wrote); and once all the
\* threads' calls have returned, every address of the region that any of
\* them wrote is in the dirty set.
C26_DirtySound ==
    th # NoThreads =>
        /\ \A i \in Threads :
               /\ th[i].marked # <<>> => Transfers(th[i].steps) = {}
               /\ th[i].pc = "returned" => th[i].wrote \subseteq Marked(th[i])
               /\ Marked(th[i]) \subseteq {root.addr + o : o \in dirty}
        /\ (\A i \in Threads : th[i].pc = "returned") =>
               \A i \in Threads : \A a \in th[i].wrote : (a - root.addr) \in dirty

\* both threads have returned, one from a copy_from and one from a write
\* through another view, and they wrote overlapping ranges
C26_Witness ==
    /\ th # NoThreads
    /\ \A i \in Threads : th[i].pc = "returned"
    /\ \E i \in Threads : \E j \in Threads \ {i} :
           /\ th[i].op = "copy_from"
           /\ th[j].op = "write"
           /\ Dest(th[i]) # Dest(th[j])
           /\ th[i].wrote \cap th[j].wrote # {}

====
